---- MODULE Spec2Model ----
(***************************************************************************)
(* A model of the voxel world of tcod_dfsrpg: GameMap (game_map.py), the   *)
(* environment effects (components/environment_effect.py) and Particle /   *)
(* Fire (entity.py).  A voxel is <<z, x, y>>; z = depth - 1 is the top.    *)
(***************************************************************************)
EXTENDS Integers, Sequences, FiniteSets, TLC

\* ------------------------------------------------------------------ bounds
\* Grid dimensions (GameMap.__init__ takes them as arguments).
depth == 3
width == 4
height == 4
\* Number of add / remove operations explored after all_init.
MaxOps == 2
\* Number of particles the factories spawn, of particle_spread passes, of
\* fixtures, of fires.
MaxParticles == 1
MaxTicks == 3
MaxFixtures == 1
MaxFires == 1

\* entity.py: a Fire ignites its voxel from this turn count on.
BURNING_POINT == 10
cavein_dmg_mult == 10
fall_dmg_mult == 5

VARIABLES
    tiles,             \* GameMap.tiles["tile_type"]: voxel -> tile type
    transparent,       \* GameMap.tiles["transparent"]: voxel -> BOOLEAN
    cavein,            \* GameMap.cavein: voxel -> "None" | "True" | "False"
    cavein_dep_graph,  \* GameMap.cavein_dep_graph: voxel -> set of voxels (a dict)
    outside,           \* GameMap.outside: column <<x, y>> -> z
    light,             \* GameMap.light: voxel -> the set of planes that are true
    dmg_tiles_d,       \* the debris dict of the last damage pass: voxel -> count
    fall_tiles_d,      \* the fall dict of the last damage pass: voxel -> landing z
    actors,            \* the living Actor objects: a sequence of [c, hp, defense]
    hp,                \* GameMap.tiles["hp"]: voxel -> uint16
    light_fov,         \* GameMap.light_fov: voxel -> boosted level (a dict)
    on_fire,           \* GameMap.on_fire: voxel -> BOOLEAN
    fire_orig_light,   \* GameMap.fire_orig_light: voxel -> level (a dict)
    particles,         \* the Particle objects, by identity
    alive,             \* the particles that are in GameMap.entities
    next_id,           \* the identity of the next object created
    fixtures,          \* the Fixture objects: id -> [c, l1, l2, state]
    fires,             \* the Fire objects: id -> [c, turn_count]
    p_coord_dict,      \* particle_spread's dict: voxel -> list of particles
    work_items,        \* the BuildRemoveTile objects: id -> [c, build_task, build_type, state]
    todo,              \* the particles the running loop of particle_spread has yet to visit
    phase,             \* "new" | "ready" | "spread" | "activate" (inside particle_spread)
    ops,               \* add / remove operations performed so far
    ticks,             \* particle_spread passes completed so far
    last_op,           \* the handler that ran last
    result,            \* its outcome: "none" | "ok" | "Impossible" | "error"
    spread_ev,         \* history: what the last Particle.spread call did
    lv_run             \* history: per particle, its voxel before the first activate

\* The fields of GameMap the support, exposure and light engines own.
world_vars == <<tiles, transparent, cavein, cavein_dep_graph, outside, light,
                dmg_tiles_d, fall_tiles_d, actors>>

\* The fields the effects, the particles and the fires own.
env_vars == <<hp, light_fov, on_fire, fire_orig_light, particles, alive, next_id,
              fixtures, fires, p_coord_dict, work_items>>

vars == <<world_vars, env_vars, todo, phase, ops, ticks, last_op, result,
          spread_ev, lv_run>>

\* ------------------------------------------------------------- tile types
empty == "empty"
floor == "floor"
wall == "wall"
door == "door"
dstairs == "down_stairs"
ustairs == "up_stairs"
TileType == {empty, floor, wall, door, dstairs, ustairs}

\* The transparent field of each statically defined tile.
tile_transparent(t) == t \in {empty, floor, dstairs, ustairs}

\* The hp field of each statically defined tile (all of material WOOD,
\* multiplier 1; Empty keeps NewTile's default).
tile_hp(t) ==
    CASE t = floor -> 50
      [] t = wall -> 1000
      [] t = door -> 200
      [] t \in {dstairs, ustairs} -> 300
      [] OTHER -> 0

Cell == (0 .. depth - 1) \X (0 .. width - 1) \X (0 .. height - 1)
Col == (0 .. width - 1) \X (0 .. height - 1)

in_bounds(z, x, y) ==
    /\ 0 <= z /\ z < depth
    /\ 0 <= x /\ x < width
    /\ 0 <= y /\ y < height

in_bounds_no_z(x, y) == 0 <= x /\ x < width /\ 0 <= y /\ y < height

is_edge_tile(z, x, y) ==
    \/ z = 0 \/ z = depth - 1
    \/ x = 0 \/ x = width - 1
    \/ y = 0 \/ y = height - 1

\* The voxels in the order of "for z ... for x ... for y ...".
CellAt(i) == <<i \div (width * height), (i \div height) % width, i % height>>
CellSeq == [i \in 1 .. (depth * width * height) |-> CellAt(i - 1)]

\* A Python index into an axis of length depth: a negative index wraps.
WrapZ(k) == IF k < 0 THEN depth + k ELSE k

\* ------------------------------------------------------------------ light
\* set_light_tile: plane i becomes true iff i = level.
set_light_tile(lt, z, x, y, level) ==
    [lt EXCEPT ![<<WrapZ(z), x, y>>] = {i \in 0 .. 4 : i = level}]

\* get_light_tile: the first plane that is true (None, here -1, when none is).
RECURSIVE FirstPlane(_, _)
FirstPlane(s, i) ==
    IF i > 4 THEN -1 ELSE IF i \in s THEN i ELSE FirstPlane(s, i + 1)

get_light_tile(lt, z, x, y) ==
    IF in_bounds(z, x, y) THEN FirstPlane(lt[<<z, x, y>>], 0) ELSE -1

\* get_neighbor_tiles: the in-bounds in-plane neighbours, x-major.
get_neighbor_tiles(z, x, y) ==
    LET cand == << <<z, x - 1, y - 1>>, <<z, x - 1, y>>, <<z, x - 1, y + 1>>,
                   <<z, x, y - 1>>, <<z, x, y + 1>>,
                   <<z, x + 1, y - 1>>, <<z, x + 1, y>>, <<z, x + 1, y + 1>> >>
    IN SelectSeq(cand, LAMBDA n : in_bounds_no_z(n[2], n[3]))

\* outside_init: per column the z of the first non-Empty voxel from the top,
\* -1 when there is none.
RECURSIVE ScanDown(_, _, _, _)
ScanDown(tl, cur_z, x, y) ==
    IF cur_z >= 0 /\ tl[<<cur_z, x, y>>] = empty
    THEN ScanDown(tl, cur_z - 1, x, y)
    ELSE cur_z

outside_init(w) ==
    [w EXCEPT !.outside = [c \in Col |-> ScanDown(w.tiles, depth - 1, c[1], c[2])]]


\* ------------------------------------------------------- the world record
\* The fields of GameMap that the engines below read and write, passed
\* through the operators as one record:
\*   tiles, transparent, cavein, dep (cavein_dep_graph), outside, light,
\*   dmg / fall (the two dicts of the last damage pass).
EmptyDict == [k \in {} |-> 0]

\* TLC passes operator arguments unevaluated; the loops below evaluate their
\* accumulator on entry (Evaluated(x) is TRUE) and split the index range in
\* two, so that a pass over all voxels nests only logarithmically deep.  The
\* steps are applied in index order, one after the other, as in the code.
Evaluated(x) == {x} # {}

Del(d, k) == [j \in (DOMAIN d) \ {k} |-> d[j]]
Put(d, k, v) == [j \in (DOMAIN d) \cup {k} |-> IF j = k THEN v ELSE d[j]]

\* diffuse_tile: the voxel's level becomes the truncated average of its
\* in-plane neighbours' (level + 1), minus 1.  A neighbour with no plane set
\* makes index_list[None] raise; the level is then not written.
RECURSIVE SumLevels(_, _, _)
SumLevels(lt, ns, i) ==
    IF i > Len(ns) THEN 0
    ELSE (get_light_tile(lt, ns[i][1], ns[i][2], ns[i][3]) + 1) + SumLevels(lt, ns, i + 1)

diffuse_tile(lt, z, x, y) ==
    LET neighbors == get_neighbor_tiles(z, x, y)
        total == Len(neighbors)
        prod_sum == SumLevels(lt, neighbors, 1)
    IN IF total = 0 \/ \E i \in 1 .. total :
                         get_light_tile(lt, neighbors[i][1], neighbors[i][2], neighbors[i][3]) = -1
       THEN lt
       ELSE set_light_tile(lt, z, x, y, (prod_sum \div total) - 1)

\* light_init: seed 4 at or above the exposure depth and 1 below it, then one
\* diffusion pass over the indoor voxels in z, x, y order.
\* The step reading the seeded levels of the neighbours, not the levels the
\* pass has written so far.
DiffuseStep_seeded(lt, out, c) ==
    LET seeded == [d \in Cell |-> {IF d[1] >= out[<<d[2], d[3]>>] THEN 4 ELSE 1}]
    IN IF c[1] < out[<<c[2], c[3]>>]
       THEN [lt EXCEPT ![c] = diffuse_tile(seeded, c[1], c[2], c[3])[c]]
       ELSE lt

DiffuseStep(lt, out, c) ==
    IF c[1] < out[<<c[2], c[3]>>] THEN diffuse_tile(lt, c[1], c[2], c[3]) ELSE lt

RECURSIVE DiffusePass(_, _, _, _)
DiffusePass(lt, out, lo, hi) ==
    IF ~Evaluated(lt) \/ lo > hi THEN lt
    ELSE IF lo = hi THEN DiffuseStep(lt, out, CellSeq[lo])
    ELSE DiffusePass(DiffusePass(lt, out, lo, (lo + hi) \div 2), out,
                     (lo + hi) \div 2 + 1, hi)

\* SeedStep leaving alone the voxels that already hold a level above 0.
SeedStep_unlit(lt, out, c) ==
    IF lt[c] = {0}
    THEN set_light_tile(lt, c[1], c[2], c[3], IF c[1] >= out[<<c[2], c[3]>>] THEN 4 ELSE 1)
    ELSE lt

SeedStep(lt, out, c) ==
    set_light_tile(lt, c[1], c[2], c[3], IF c[1] >= out[<<c[2], c[3]>>] THEN 4 ELSE 1)

RECURSIVE SeedPass(_, _, _, _)
SeedPass(lt, out, lo, hi) ==
    IF ~Evaluated(lt) \/ lo > hi THEN lt
    ELSE IF lo = hi THEN SeedStep(lt, out, CellSeq[lo])
    ELSE SeedPass(SeedPass(lt, out, lo, (lo + hi) \div 2), out,
                  (lo + hi) \div 2 + 1, hi)

light_init(w) ==
    [w EXCEPT !.light = DiffusePass(SeedPass(w.light, w.outside, 1, Len(CellSeq)),
                                   w.outside, 1, Len(CellSeq))]

\* ---------------------------------------------------------- support flood
\* One of the six blocks of get_cavein_neighbors, for neighbour n of c;
\* ok is the block's bounds (and Wall/Door) condition.  acc = [dep, out].
NbrVisit(acc, cav, q_set, c, n, ok) ==
    IF ~ok THEN acc
    ELSE IF cav[n] = "False" THEN acc
    ELSE IF cav[n] = "True"
    THEN IF n \in DOMAIN acc.dep
         THEN IF c \in DOMAIN acc.dep /\ n \notin acc.dep[c]
              THEN [acc EXCEPT !.dep = Put(acc.dep, n, acc.dep[n] \cup {c})]
              ELSE acc
         ELSE IF ~is_edge_tile(n[1], n[2], n[3])
              THEN [acc EXCEPT !.dep = Put(acc.dep, n, {c})]
              ELSE acc
    ELSE IF n \notin q_set
    THEN [acc EXCEPT !.out = Append(acc.out, n)]
    ELSE acc

\* A variant that visits only the four in-plane neighbours.
get_cavein_neighbors_plane(tl, cav, dep, q_set, z, x, y) ==
    LET c == <<z, x, y>>
        a0 == [dep |-> dep, out |-> <<>>]
        a1 == NbrVisit(a0, cav, q_set, c, <<z, x - 1, y>>, in_bounds(z, x - 1, y))
        a2 == NbrVisit(a1, cav, q_set, c, <<z, x + 1, y>>, in_bounds(z, x + 1, y))
        a3 == NbrVisit(a2, cav, q_set, c, <<z, x, y - 1>>, in_bounds(z, x, y - 1))
        a4 == NbrVisit(a3, cav, q_set, c, <<z, x, y + 1>>, in_bounds(z, x, y + 1))
    IN a4

get_cavein_neighbors(tl, cav, dep, q_set, z, x, y) ==
    LET c == <<z, x, y>>
        a0 == [dep |-> dep, out |-> <<>>]
        a1 == NbrVisit(a0, cav, q_set, c, <<z, x - 1, y>>, in_bounds(z, x - 1, y))
        a2 == NbrVisit(a1, cav, q_set, c, <<z, x + 1, y>>, in_bounds(z, x + 1, y))
        a3 == NbrVisit(a2, cav, q_set, c, <<z, x, y - 1>>, in_bounds(z, x, y - 1))
        a4 == NbrVisit(a3, cav, q_set, c, <<z, x, y + 1>>, in_bounds(z, x, y + 1))
        a5 == NbrVisit(a4, cav, q_set, c, <<z - 1, x, y>>,
                       in_bounds(z - 1, x, y) /\ tl[<<z - 1, x, y>>] \in {wall, door})
        a6 == NbrVisit(a5, cav, q_set, c, <<z + 1, x, y>>,
                       in_bounds(z + 1, x, y) /\ tl[<<z, x, y>>] \in {wall, door})
    IN a6

\* The body of cavein_init's "for nz, nx, ny in get_cavein_neighbors(...)".
RECURSIVE Enqueue(_, _, _, _)
Enqueue(st, out, i, c) ==
    IF ~Evaluated(st) \/ i > Len(out) THEN st
    ELSE LET n == out[i]
             dep1 == IF n \in DOMAIN st.dep
                     THEN Put(st.dep, n, st.dep[n] \cup {c})
                     ELSE IF ~is_edge_tile(n[1], n[2], n[3])
                     THEN Put(st.dep, n, {c})
                     ELSE st.dep
         IN Enqueue([st EXCEPT !.q = Append(st.q, n),
                               !.q_set = st.q_set \cup {n},
                               !.dep = dep1], out, i + 1, c)

\* cavein_init's "while not q.empty()".  st = [cavein, dep, q, q_set].
RECURSIVE BfsLoop(_, _)
BfsLoop(tl, st) ==
    IF st.q = <<>> THEN st
    ELSE LET c == Head(st.q)
             q_set1 == st.q_set \ {c}
             cav1 == [st.cavein EXCEPT ![c] = "True"]
             r == get_cavein_neighbors(tl, cav1, st.dep, q_set1, c[1], c[2], c[3])
         IN BfsLoop(tl, Enqueue([cavein |-> cav1, dep |-> r.dep,
                                 q |-> Tail(st.q), q_set |-> q_set1], r.out, 1, c))

\* The span left as it was.
LightSpan_dark(lt, k, z, x, y) == lt

\* get_cavein_dmg_tiles: every voxel that is not Supported and not Empty
\* becomes Empty; debris and fall targets are recorded; a column whose
\* exposure depth was the voxel is re-exposed and lit down to the next floor.
RECURSIVE LightSpan(_, _, _, _, _)
LightSpan(lt, k, z, x, y) ==
    IF ~Evaluated(lt) \/ k >= z THEN lt ELSE LightSpan(set_light_tile(lt, k, x, y, 4), k + 1, z, x, y)

\* The step with the debris count of a landing voxel set to one each time.
DmgStep_single(w, c) ==
    LET z == c[1]
        x == c[2]
        y == c[3]
    IN IF w.cavein[c] # "True" /\ w.tiles[c] # empty
       THEN LET tl1 == [w.tiles EXCEPT ![c] = empty]
                cur_z == ScanDown(tl1, z - 1, x, y)
                hit == <<cur_z, x, y>>
                opened == w.outside[<<x, y>>] = z
            IN [w EXCEPT !.tiles = tl1,
                         !.transparent[c] = tile_transparent(empty),
                         !.hp[c] = tile_hp(empty),
                         !.cavein[c] = "False",
                         !.dmg = IF cur_z >= 0
                                 THEN Put(w.dmg, hit,
                                          1)
                                 ELSE w.dmg,
                         !.fall = Put(w.fall, c, cur_z),
                         !.outside[<<x, y>>] = IF opened THEN cur_z ELSE @,
                         !.light = IF opened THEN LightSpan(w.light, cur_z, z, x, y) ELSE @]
       ELSE w

DmgStep(w, c) ==
    LET z == c[1]
        x == c[2]
        y == c[3]
    IN IF w.cavein[c] # "True" /\ w.tiles[c] # empty
       THEN LET tl1 == [w.tiles EXCEPT ![c] = empty]
                cur_z == ScanDown(tl1, z - 1, x, y)
                hit == <<cur_z, x, y>>
                opened == w.outside[<<x, y>>] = z
            IN [w EXCEPT !.tiles = tl1,
                         !.transparent[c] = tile_transparent(empty),
                         !.hp[c] = tile_hp(empty),
                         !.cavein[c] = "False",
                         !.dmg = IF cur_z >= 0
                                 THEN Put(w.dmg, hit,
                                          IF hit \in DOMAIN w.dmg THEN w.dmg[hit] + 1 ELSE 1)
                                 ELSE w.dmg,
                         !.fall = Put(w.fall, c, cur_z),
                         !.outside[<<x, y>>] = IF opened THEN cur_z ELSE @,
                         !.light = IF opened THEN LightSpan(w.light, cur_z, z, x, y) ELSE @]
       ELSE w

RECURSIVE DmgPass(_, _, _)
DmgPass(w, lo, hi) ==
    IF ~Evaluated(w) \/ lo > hi THEN w
    ELSE IF lo = hi THEN DmgStep(w, CellSeq[lo])
    ELSE DmgPass(DmgPass(w, lo, (lo + hi) \div 2), (lo + hi) \div 2 + 1, hi)

get_cavein_dmg_tiles(w) ==
    DmgPass([w EXCEPT !.dmg = EmptyDict, !.fall = EmptyDict], 1, Len(CellSeq))

\* Fighter.hp = value.
Fighter_hp(a, value) == [a EXCEPT !.hp = value]

\* The pass with a fallen actor hurt but left at the depth it stood at.
apply_cavein_dmg_stay(w) ==
    LET hit(a) ==
            IF a.c \in DOMAIN w.dmg
            THEN LET damage == cavein_dmg_mult * w.dmg[a.c] - a.defense
                 IN IF damage > 0 THEN Fighter_hp(a, a.hp - damage) ELSE a
            ELSE IF a.c \in DOMAIN w.fall
            THEN LET cur_z == w.fall[a.c]
                 IN IF cur_z >= 0
                    THEN LET damage == fall_dmg_mult * (a.c[1] - cur_z)
                             a1 == a
                         IN IF damage > 0 THEN Fighter_hp(a1, a1.hp - damage) ELSE a1
                    ELSE a
            ELSE a
    IN [w EXCEPT !.actors = [i \in DOMAIN w.actors |-> hit(w.actors[i])]]

\* The pass with a fallen actor hit as well by the debris that came down on
\* the voxel it landed on.
apply_cavein_dmg_both(w) ==
    LET debris(a) ==
            IF a.c \in DOMAIN w.dmg
            THEN LET damage == cavein_dmg_mult * w.dmg[a.c] - a.defense
                 IN IF damage > 0 THEN Fighter_hp(a, a.hp - damage) ELSE a
            ELSE a
        hit(a) ==
            IF a.c \in DOMAIN w.dmg
            THEN debris(a)
            ELSE IF a.c \in DOMAIN w.fall
            THEN LET cur_z == w.fall[a.c]
                 IN IF cur_z >= 0
                    THEN LET damage == fall_dmg_mult * (a.c[1] - cur_z)
                             a1 == [a EXCEPT !.c = <<cur_z, a.c[2], a.c[3]>>]
                         IN debris(IF damage > 0 THEN Fighter_hp(a1, a1.hp - damage) ELSE a1)
                    ELSE a
            ELSE a
    IN [w EXCEPT !.actors = [i \in DOMAIN w.actors |-> hit(w.actors[i])]]

\* apply_cavein_dmg: each living actor standing where debris landed is hit;
\* otherwise one standing in a voxel that collapsed falls to the landing
\* depth, or stays as it is when there is none ("del a" unbinds the name).
apply_cavein_dmg(w) ==
    LET hit(a) ==
            IF a.c \in DOMAIN w.dmg
            THEN LET damage == cavein_dmg_mult * w.dmg[a.c] - a.defense
                 IN IF damage > 0 THEN Fighter_hp(a, a.hp - damage) ELSE a
            ELSE IF a.c \in DOMAIN w.fall
            THEN LET cur_z == w.fall[a.c]
                 IN IF cur_z >= 0
                    THEN LET damage == fall_dmg_mult * (a.c[1] - cur_z)
                             a1 == [a EXCEPT !.c = <<cur_z, a.c[2], a.c[3]>>]
                         IN IF damage > 0 THEN Fighter_hp(a1, a1.hp - damage) ELSE a1
                    ELSE a
            ELSE a
    IN [w EXCEPT !.actors = [i \in DOMAIN w.actors |-> hit(w.actors[i])]]

cavein_init(w) ==
    LET isEdge(c) == is_edge_tile(c[1], c[2], c[3])
        cav0 == [c \in Cell |-> IF w.tiles[c] = empty THEN "False"
                                ELSE IF isEdge(c) THEN "True"
                                ELSE w.cavein[c]]
        q0 == SelectSeq(CellSeq, LAMBDA c : w.tiles[c] # empty /\ isEdge(c))
        st == BfsLoop(w.tiles, [cavein |-> cav0, dep |-> w.dep, q |-> q0,
                                q_set |-> {q0[i] : i \in 1 .. Len(q0)}])
    IN apply_cavein_dmg(get_cavein_dmg_tiles([w EXCEPT !.cavein = st.cavein, !.dep = st.dep]))

all_init(w) == light_init(cavein_init(outside_init(w)))

\* ------------------------------------------------------- remove / collapse
\* A variant that walks only the four in-plane neighbours.
get_cavein_dfs_neighbors_plane(cav, z, x, y) ==
    LET cand == << <<z, x - 1, y>>, <<z, x + 1, y>>, <<z, x, y - 1>>, <<z, x, y + 1>> >>
    IN SelectSeq(cand, LAMBDA n : in_bounds(n[1], n[2], n[3]) /\ cav[n] = "True")

get_cavein_dfs_neighbors(cav, z, x, y) ==
    LET cand == << <<z, x - 1, y>>, <<z, x + 1, y>>, <<z, x, y - 1>>,
                   <<z, x, y + 1>>, <<z - 1, x, y>>, <<z + 1, x, y>> >>
    IN SelectSeq(cand, LAMBDA n : in_bounds(n[1], n[2], n[3]) /\ cav[n] = "True")

\* A variant that collapses c without walking on into its neighbours.
cavein_dfs_shallow(st, c, p) ==
    IF c \notin DOMAIN st.dep THEN st
    ELSE IF p \notin st.dep[c] THEN st
    ELSE IF Cardinality(st.dep[c]) > 1
    THEN [st EXCEPT !.dep = Put(st.dep, c, st.dep[c] \ {p})]
    ELSE [cavein |-> [st.cavein EXCEPT ![c] = "False"], dep |-> Del(st.dep, c)]

\* cavein_dfs(z, x, y, pz, px, py) on st = [cavein, dep]: c loses its
\* dependency on p; with none left it collapses and the walk goes on into
\* its Supported neighbours other than p.
RECURSIVE cavein_dfs(_, _, _)
RECURSIVE DfsEach(_, _, _, _, _)
cavein_dfs(st, c, p) ==
    IF c \notin DOMAIN st.dep THEN st
    ELSE IF p \notin st.dep[c] THEN st
    ELSE IF Cardinality(st.dep[c]) > 1
    THEN [st EXCEPT !.dep = Put(st.dep, c, st.dep[c] \ {p})]
    ELSE LET st1 == [cavein |-> [st.cavein EXCEPT ![c] = "False"],
                     dep |-> Del(st.dep, c)]
         IN DfsEach(st1, get_cavein_dfs_neighbors(st1.cavein, c[1], c[2], c[3]), 1, c, p)

DfsEach(st, ns, i, c, p) ==
    IF ~Evaluated(st) \/ i > Len(ns) THEN st
    ELSE DfsEach(IF ns[i] # p THEN cavein_dfs(st, ns[i], c) ELSE st, ns, i + 1, c, p)

RECURSIVE RemoveEach(_, _, _, _)
RemoveEach(st, ns, i, c) ==
    IF ~Evaluated(st) \/ i > Len(ns) THEN st
    ELSE RemoveEach(cavein_dfs(st, ns[i], c), ns, i + 1, c)

remove_tile(w, c) ==
    LET cav1 == [w.cavein EXCEPT ![c] = "False"]
        dep1 == IF c \in DOMAIN w.dep THEN Del(w.dep, c) ELSE w.dep
        st == RemoveEach([cavein |-> cav1, dep |-> dep1],
                         get_cavein_dfs_neighbors(cav1, c[1], c[2], c[3]), 1, c)
    IN apply_cavein_dmg(get_cavein_dmg_tiles([w EXCEPT !.cavein = st.cavein, !.dep = st.dep]))

\* remove_tile_check: TRUE, or Impossible (FALSE) on an Empty voxel.
remove_tile_check(w, c) == w.tiles[c] # empty

\* ------------------------------------------------------------------- build
\* build_update_tile.  The loop "for k in range(self.outside[x, y], z)" runs
\* from the exposure depth as already overwritten with z.
RECURSIVE DiffuseSpan(_, _, _, _, _)
DiffuseSpan(lt, k, z, x, y) ==
    IF ~Evaluated(lt) \/ k >= z THEN lt ELSE DiffuseSpan(diffuse_tile(lt, k, x, y), k + 1, z, x, y)

\* A variant that writes the tile without marking it Supported.
build_update_tile_unmarked(w, c, build_type) ==
    LET w1 == [w EXCEPT !.tiles[c] = build_type,
                        !.transparent[c] = tile_transparent(build_type)]
    IN IF w1.outside[<<c[2], c[3]>>] < c[1]
       THEN [w1 EXCEPT !.outside[<<c[2], c[3]>>] = c[1]]
       ELSE w1

\* A variant that leaves the exposure map as it was.
build_update_tile_stale(w, c, build_type) ==
    [w EXCEPT !.cavein[c] = "True",
              !.tiles[c] = build_type,
              !.transparent[c] = tile_transparent(build_type)]

build_update_tile(w, c, build_type) ==
    LET z == c[1]
        x == c[2]
        y == c[3]
        w1 == [w EXCEPT !.cavein[c] = "True",
                        !.tiles[c] = build_type,
                        !.transparent[c] = tile_transparent(build_type),
                        !.hp[c] = tile_hp(build_type)]
    IN IF w1.outside[<<x, y>>] < z
       THEN LET w2 == [w1 EXCEPT !.outside[<<x, y>>] = z]
            IN [w2 EXCEPT !.light = DiffuseSpan(w2.light, w2.outside[<<x, y>>], z, x, y)]
       ELSE w1

\* The Supported neighbours that justify a build at c, in the code's order.
valid_neighbors(w, c, build_type) ==
    LET z == c[1]
        x == c[2]
        y == c[3]
        sup(n) == in_bounds(n[1], n[2], n[3]) /\ w.cavein[n] = "True"
        plane == SelectSeq(<< <<z, x - 1, y>>, <<z, x + 1, y>>,
                              <<z, x, y - 1>>, <<z, x, y + 1>> >>, sup)
        below == IF sup(<<z - 1, x, y>>) /\ w.tiles[<<z - 1, x, y>>] \in {wall, door}
                 THEN << <<z - 1, x, y>> >> ELSE <<>>
        above == IF sup(<<z + 1, x, y>>) /\ build_type \in {wall, door}
                    /\ w.tiles[<<z + 1, x, y>>] # empty
                 THEN << <<z + 1, x, y>> >> ELSE <<>>
    IN plane \o below \o above

\* "for n in valid_neighbors" on an edge build: one way dependency.
RECURSIVE EdgeDeps(_, _, _, _)
EdgeDeps(dep, ns, i, c) ==
    IF ~Evaluated(dep) \/ i > Len(ns) THEN dep
    ELSE EdgeDeps(IF ns[i] \in DOMAIN dep
                  THEN Put(dep, ns[i], dep[ns[i]] \cup {c}) ELSE dep, ns, i + 1, c)

\* "for i, n in enumerate(valid_neighbors)" on an inner build: two way.
RECURSIVE InnerDeps(_, _, _, _)
InnerDeps(dep, ns, i, c) ==
    IF ~Evaluated(dep) \/ i > Len(ns) THEN dep
    ELSE LET n == ns[i]
             d1 == IF c \in DOMAIN dep THEN Put(dep, c, dep[c] \cup {n})
                   ELSE Put(dep, c, {n})
             d2 == IF i > 1 /\ n \in DOMAIN d1 THEN Put(d1, n, d1[n] \cup {c}) ELSE d1
         IN InnerDeps(d2, ns, i + 1, c)

\* A variant that writes the tile before it looks for a justifying neighbour.
build_after_check_eager(w, c, build_type) ==
    LET ns == valid_neighbors(w, c, build_type)
        w1 == build_update_tile(w, c, build_type)
    IN IF is_edge_tile(c[1], c[2], c[3])
       THEN [w |-> [w1 EXCEPT !.dep = EdgeDeps(w1.dep, ns, 1, c)], raised |-> FALSE]
       ELSE IF ns # <<>>
       THEN [w |-> [w1 EXCEPT !.dep = InnerDeps(w1.dep, ns, 1, c)], raised |-> FALSE]
       ELSE [w |-> w1, raised |-> TRUE]

\* build_after_check: [w, raised]; raised is the Impossible exception.
build_after_check(w, c, build_type) ==
    LET ns == valid_neighbors(w, c, build_type)
    IN IF is_edge_tile(c[1], c[2], c[3])
       THEN LET w1 == build_update_tile(w, c, build_type)
            IN [w |-> [w1 EXCEPT !.dep = EdgeDeps(w1.dep, ns, 1, c)], raised |-> FALSE]
       ELSE IF ns # <<>>
       THEN LET w1 == build_update_tile(w, c, build_type)
            IN [w |-> [w1 EXCEPT !.dep = InnerDeps(w1.dep, ns, 1, c)], raised |-> FALSE]
       ELSE [w |-> w, raised |-> TRUE]

\* build_tile_check: TRUE, or Impossible (FALSE) for the wrong topology.
build_tile_check(w, c, build_type) ==
    IF build_type \in {floor, dstairs, ustairs} THEN w.tiles[c] = empty
    ELSE IF build_type \in {wall, door} THEN w.tiles[c] \in {empty, floor}
    ELSE FALSE

\* remove_voxel / add_voxel as the core's mutators: the check, then the change.
remove_voxel(w, c) ==
    IF remove_tile_check(w, c)
    THEN [w |-> remove_tile(w, c), raised |-> FALSE]
    ELSE [w |-> w, raised |-> TRUE]

add_voxel(w, c, build_type) ==
    IF build_tile_check(w, c, build_type)
    THEN build_after_check(w, c, build_type)
    ELSE [w |-> w, raised |-> TRUE]

\* ------------------------------------------------------- environment effects
\* An attribute that may be None is the empty set, a value v is {v}.
None == {}
Some(v) == {v}
The(s) == CHOOSE v \in s : TRUE

\* A variant of the ceiling that lets every value through.
CapLevel_uncapped(w, c, v) == v

\* The ceiling of the effects: 3 below the exposure depth, 4 otherwise.
CapLevel(w, c, v) ==
    IF w.outside[<<c[2], c[3]>>] > c[1]
    THEN (IF v > 3 THEN 3 ELSE v)
    ELSE (IF v > 4 THEN 4 ELSE v)

\* A variant of int() that rounds up.
IntDiv_up(a, b) == (a + b - 1) \div b

\* int(a / b) for a >= 0 and b > 0.
IntDiv(a, b) == a \div b

\* LowerVisibility.activate of particle pid.
LowerVisibility_activate(w, pid) ==
    LET p == w.particles[pid]
        c == p.c
        bv == IF c \in DOMAIN w.light_fov THEN Some(w.light_fov[c])
              ELSE IF p.base_value = None
              THEN (IF w.on_fire[c] THEN Some(w.fire_orig_light[c])
                    ELSE Some(get_light_tile(w.light, c[1], c[2], c[3])))
              ELSE p.base_value
        bt == IF p.base_transparency = None THEN Some(w.transparent[c])
              ELSE p.base_transparency
        base_value == CapLevel(w, c, The(bv))
        lower_amt == base_value - IntDiv(p.density, p.per_density_amt)
        w1 == [w EXCEPT !.particles[pid].base_value = bv,
                        !.particles[pid].base_transparency = bt]
    IN IF lower_amt < 0
       THEN [w1 EXCEPT !.transparent[c] = FALSE,
                       !.light = set_light_tile(w1.light, c[1], c[2], c[3], 0)]
       ELSE [w1 EXCEPT !.transparent[c] = The(bt),
                       !.light = set_light_tile(w1.light, c[1], c[2], c[3], lower_amt)]

\* LowerVisibility.deactivate of particle pid: [w, raised].  With no cached
\* level and no overlay entry the comparison "None > 3" raises TypeError
\* before anything is written; a cached transparency of None is stored into
\* the boolean array as False.
LowerVisibility_deactivate(w, pid) ==
    LET p == w.particles[pid]
        c == p.c
        sv == IF c \in DOMAIN w.light_fov THEN Some(w.light_fov[c]) ELSE p.base_value
    IN IF sv = None THEN [w |-> w, raised |-> TRUE]
       ELSE [w |-> [w EXCEPT !.light = set_light_tile(w.light, c[1], c[2], c[3],
                                                      CapLevel(w, c, The(sv))),
                             !.transparent[c] = IF p.base_transparency = None THEN FALSE
                                                ELSE The(p.base_transparency)],
             raised |-> FALSE]

\* tcod.map.compute_fov(transparency[z], pov, radius), a library routine:
\* the columns within the radius of the point of view whose line of sight,
\* a straight line of grid steps, crosses only transparent voxels.  The end
\* point itself may be opaque (walls are lit).
Abs(a) == IF a < 0 THEN -a ELSE a
RoundDiv(a, n) == IF a < 0 THEN -((2 * (-a) + n) \div (2 * n)) ELSE (2 * a + n) \div (2 * n)

compute_fov(tr, z, px, py, radius) ==
    LET sees(x, y) ==
            LET dx == x - px
                dy == y - py
                n == IF Abs(dx) > Abs(dy) THEN Abs(dx) ELSE Abs(dy)
            IN /\ dx * dx + dy * dy <= radius * radius
               /\ \A i \in 1 .. n - 1 :
                      tr[<<z, px + RoundDiv(i * dx, n), py + RoundDiv(i * dy, n)>>]
    IN {c \in Col : sees(c[1], c[2])}

\* ColAt: the columns in the order of "for x ... for y ...".
ColAt(i) == <<i \div height, i % height>>

\* The body of IncreaseVisibility.activate's loops for column col; pm is
\* the dict "particles" (voxel -> particle) the method has just built.
FovStep(w, fid, f1, f2, pm, col) ==
    LET c == <<w.fixtures[fid].c[1], col[1], col[2]>>
        k == IF col \in f1 THEN 2 ELSE 1
        base == IF c \in DOMAIN w.light_fov THEN w.light_fov[c]
                ELSE IF c \in DOMAIN pm /\ w.particles[pm[c]].base_value \notin {None, Some(0)}
                THEN The(w.particles[pm[c]].base_value)
                ELSE IF w.on_fire[c] THEN w.fire_orig_light[c]
                ELSE get_light_tile(w.light, c[1], c[2], c[3])
        w1 == [w EXCEPT !.light_fov = Put(w.light_fov, c, base + k)]
        w2 == IF col \in f1
              THEN [w1 EXCEPT !.fixtures[fid].l1 = Append(@, c)]
              ELSE [w1 EXCEPT !.fixtures[fid].l2 = Append(@, c)]
    IN IF col \in f1 \/ col \in f2
       THEN [w2 EXCEPT !.light = set_light_tile(w2.light, c[1], c[2], c[3],
                                                CapLevel(w2, c, w2.light_fov[c]))]
       ELSE w

RECURSIVE FovPass(_, _, _, _, _, _, _)
FovPass(w, fid, f1, f2, pm, lo, hi) ==
    IF ~Evaluated(w) \/ lo > hi THEN w
    ELSE IF lo = hi THEN FovStep(w, fid, f1, f2, pm, ColAt(lo))
    ELSE FovPass(FovPass(w, fid, f1, f2, pm, lo, (lo + hi) \div 2), fid, f1, f2, pm,
                 (lo + hi) \div 2 + 1, hi)

\* "for p in self.gamemap.particles: particles[p.z, p.x, p.y] = p", the
\* entity set iterated in the order ord.
RECURSIVE ParticleAt(_, _, _, _)
ParticleAt(w, dict, ord, i) ==
    IF ~Evaluated(dict) \/ i > Len(ord) THEN dict
    ELSE ParticleAt(w, Put(dict, w.particles[ord[i]].c, ord[i]), ord, i + 1)

\* IncreaseVisibility.activate of fixture fid.
IncreaseVisibility_activate(w, fid, pm) ==
    LET c == w.fixtures[fid].c
        f1 == compute_fov(w.transparent, c[1], c[2], c[3], 2)
        f2 == compute_fov(w.transparent, c[1], c[2], c[3], 4)
    IN FovPass(w, fid, f1, f2, pm, 0, width * height - 1)

\* IncreaseVisibility.deactivate: "for tile in self.l1" (delta 2, written
\* when the voxel is not on fire), then "for tile in self.l2" (delta 1,
\* written when the voxel is on fire).
RECURSIVE UnboostEach(_, _, _, _, _)
UnboostEach(w, l, i, delta, when_fire) ==
    IF ~Evaluated(w) \/ i > Len(l) THEN w
    ELSE LET c == l[i]
             w1 == [w EXCEPT !.light_fov[c] = @ - delta]
             cur == get_light_tile(w1.light, c[1], c[2], c[3])
             low == IF cur < w1.light_fov[c] THEN cur ELSE w1.light_fov[c]
         IN UnboostEach(IF w1.on_fire[c] = when_fire
                        THEN [w1 EXCEPT !.light = set_light_tile(w1.light, c[1], c[2], c[3], low)]
                        ELSE w1, l, i + 1, delta, when_fire)

\* The deactivate that walks l1 only.
IncreaseVisibility_deactivate_l1(w, fid) ==
    UnboostEach(w, w.fixtures[fid].l1, 1, 2, FALSE)

IncreaseVisibility_deactivate(w, fid) ==
    UnboostEach(UnboostEach(w, w.fixtures[fid].l1, 1, 2, FALSE),
                w.fixtures[fid].l2, 1, 1, TRUE)

\* Fire.handle_turn with the test "turn_count > BURNING_POINT".
Fire_handle_turn_late(w, fid) ==
    LET f == w.fires[fid]
        c == f.c
    IN IF f.turn_count > BURNING_POINT
       THEN IF c \in DOMAIN w.fire_orig_light
            THEN [w |-> [w EXCEPT !.on_fire[c] = TRUE], raised |-> TRUE]
            ELSE [w |-> [w EXCEPT !.on_fire[c] = TRUE,
                                  !.fire_orig_light =
                                      Put(@, c, get_light_tile(w.light, c[1], c[2], c[3])),
                                  !.fires[fid].turn_count = @ + 1],
                  raised |-> FALSE]
       ELSE [w |-> [w EXCEPT !.fires[fid].turn_count = @ + 1], raised |-> FALSE]

\* Fire.handle_turn of fire fid: [w, raised].
Fire_handle_turn(w, fid) ==
    LET f == w.fires[fid]
        c == f.c
    IN IF f.turn_count >= BURNING_POINT
       THEN IF c \in DOMAIN w.fire_orig_light
            THEN [w |-> [w EXCEPT !.on_fire[c] = TRUE], raised |-> TRUE]
            ELSE [w |-> [w EXCEPT !.on_fire[c] = TRUE,
                                  !.fire_orig_light =
                                      Put(@, c, get_light_tile(w.light, c[1], c[2], c[3])),
                                  !.fires[fid].turn_count = @ + 1],
                  raised |-> FALSE]
       ELSE [w |-> [w EXCEPT !.fires[fid].turn_count = @ + 1], raised |-> FALSE]

\* update_tiles.  np.place(arr, mask, vals) writes the first N values of
\* vals, in array order, into the N masked voxels: the k-th burning voxel
\* receives (hp - 2) of the k-th voxel of the grid, in uint16.
Burning(w) == SelectSeq(CellSeq, LAMBDA c : w.on_fire[c])

update_tiles(w) ==
    LET b == Burning(w)
        hp1 == [c \in Cell |->
                   IF w.on_fire[c]
                   THEN LET k == CHOOSE i \in 1 .. Len(b) : b[i] = c
                        IN (w.hp[CellSeq[k]] - 2) % 65536
                   ELSE w.hp[c]]
        fire1 == [c \in Cell |-> w.on_fire[c] /\ ~(hp1[c] <= 0)]
    IN [w EXCEPT !.hp = hp1,
                 !.on_fire = fire1,
                 !.light = [c \in Cell |-> IF fire1[c] THEN {4} ELSE w.light[c]]]

\* ---------------------------------------------------------------- particles
\* w.particles holds the Particle objects by identity, w.alive the ones in
\* GameMap.entities.  A particle is [c, particle_type, sd_num, sd_den,
\* spread_rate, spread_value, density, density_decay, per_density_amt,
\* base_value, base_transparency]; spread_decay is the float sd_num / sd_den
\* with sd_den a power of two, so that the products of Particle.spread are
\* exact in floating point and int() of them is the integer quotient.

\* Particle.spawn: a deep copy of src at c, its cached level reset.
Particle_spawn(w, src, c, density) ==
    LET clone == [src EXCEPT !.c = c,
                             !.base_value = None,
                             !.density = IF density # 0 THEN density ELSE @]
    IN [w EXCEPT !.particles = Put(@, w.next_id, clone),
                 !.alive = @ \cup {w.next_id},
                 !.next_id = @ + 1]

\* The destinations with both vertical tests made independently of each other.
available_tiles_both(w, c) ==
    LET z == c[1]
        x == c[2]
        y == c[3]
        open(n) == w.tiles[n] \notin {wall, door}
        plane == SelectSeq(get_neighbor_tiles(z, x, y), open)
        down == IF z - 1 >= 0 /\ z - 1 < depth /\ open(<<z - 1, x, y>>)
                   /\ w.tiles[c] \in {empty, dstairs}
                THEN Append(plane, <<z - 1, x, y>>) ELSE plane
    IN IF z + 1 >= 0 /\ z + 1 < depth /\ open(c)
          /\ w.tiles[<<z + 1, x, y>>] \in {empty, dstairs}
       THEN Append(down, <<z + 1, x, y>>)
       ELSE down

\* The destinations of a spread event, in the order the code collects them.
available_tiles(w, c) ==
    LET z == c[1]
        x == c[2]
        y == c[3]
        open(n) == w.tiles[n] \notin {wall, door}
        plane == SelectSeq(get_neighbor_tiles(z, x, y), open)
    IN IF z - 1 >= 0 /\ z - 1 < depth /\ open(<<z - 1, x, y>>)
          /\ w.tiles[c] \in {empty, dstairs}
       THEN Append(plane, <<z - 1, x, y>>)
       ELSE IF z + 1 >= 0 /\ z + 1 < depth /\ open(c)
               /\ w.tiles[<<z + 1, x, y>>] \in {empty, dstairs}
       THEN Append(plane, <<z + 1, x, y>>)
       ELSE plane

\* The particle of the given type looked for at the head of the list only.
FirstOfType_head(w, lst, i, ptype) ==
    IF Len(lst) >= 1 /\ w.particles[lst[1]].particle_type = ptype THEN lst[1] ELSE 0

\* The first particle of the list with the given type, 0 when there is none.
RECURSIVE FirstOfType(_, _, _, _)
FirstOfType(w, lst, i, ptype) ==
    IF i > Len(lst) THEN 0
    ELSE IF w.particles[lst[i]].particle_type = ptype THEN lst[i]
    ELSE FirstOfType(w, lst, i + 1, ptype)

\* The loop of Particle.spread with the merge test "<=" in place of "<".
RECURSIVE SpreadEach_le(_, _, _, _, _)
SpreadEach_le(w, pid, ts, i, per) ==
    IF ~Evaluated(w) \/ i > Len(ts) THEN w
    ELSE LET t == ts[i]
             self == w.particles[pid]
             q == IF t \in DOMAIN w.p_coord_dict
                  THEN FirstOfType(w, w.p_coord_dict[t], 1, self.particle_type) ELSE 0
             w1 == IF q # 0
                   THEN IF w.particles[q].density + per <= self.density
                        THEN [w EXCEPT !.particles[q].density = @ + per]
                        ELSE w
                   ELSE LET w2 == Particle_spawn(w, self, t, per)
                        IN [w2 EXCEPT !.p_coord_dict =
                                Put(@, t, IF t \in DOMAIN w.p_coord_dict
                                          THEN Append(w.p_coord_dict[t], w.next_id)
                                          ELSE <<w.next_id>>)]
         IN SpreadEach_le(w1, pid, ts, i + 1, per)

\* "for t in available_tiles" of Particle.spread.
RECURSIVE SpreadEach(_, _, _, _, _)
SpreadEach(w, pid, ts, i, per) ==
    IF ~Evaluated(w) \/ i > Len(ts) THEN w
    ELSE LET t == ts[i]
             self == w.particles[pid]
             q == IF t \in DOMAIN w.p_coord_dict
                  THEN FirstOfType(w, w.p_coord_dict[t], 1, self.particle_type) ELSE 0
             w1 == IF q # 0
                   THEN IF w.particles[q].density + per < self.density
                        THEN [w EXCEPT !.particles[q].density = @ + per]
                        ELSE w
                   ELSE LET w2 == Particle_spawn(w, self, t, per)
                        IN [w2 EXCEPT !.p_coord_dict =
                                Put(@, t, IF t \in DOMAIN w.p_coord_dict
                                          THEN Append(w.p_coord_dict[t], w.next_id)
                                          ELSE <<w.next_id>>)]
         IN SpreadEach(w1, pid, ts, i + 1, per)

\* Particle.spread of particle pid: [w, raised].  raised is the TypeError of
\* a deactivate without a cached level, or the ZeroDivisionError of a spread
\* event without destinations.
Particle_spread(w, pid) ==
    LET p0 == w.particles[pid]
        d1 == p0.density - p0.density_decay
        w1 == [w EXCEPT !.particles[pid].density = d1]
    IN IF d1 <= 0
       THEN LET r == LowerVisibility_deactivate(w1, pid)
            IN IF r.raised THEN [w |-> w1, raised |-> TRUE]
               ELSE [w |-> [r.w EXCEPT !.alive = @ \ {pid}], raised |-> FALSE]
       ELSE IF p0.spread_rate = 0 THEN [w |-> w1, raised |-> FALSE]
       ELSE IF p0.spread_value + 1 < p0.spread_rate
       THEN [w |-> [w1 EXCEPT !.particles[pid].spread_value = @ + 1], raised |-> FALSE]
       ELSE LET ts == available_tiles(w1, p0.c)
                spread_density_total == IntDiv(d1 * p0.sd_num, p0.sd_den)
                w2 == [w1 EXCEPT !.particles[pid].spread_value = 0,
                                 !.particles[pid].density =
                                     IntDiv(d1 * (p0.sd_den - p0.sd_num), p0.sd_den)]
            IN IF Len(ts) = 0 THEN [w |-> w2, raised |-> TRUE]
               ELSE LET per_spread_density == IntDiv(spread_density_total, Len(ts))
                    IN IF per_spread_density > 0
                       THEN [w |-> SpreadEach(w2, pid, ts, 1, per_spread_density),
                             raised |-> FALSE]
                       ELSE [w |-> w2, raised |-> FALSE]

\* particle_spread, first loop: the dict voxel -> list of particles, filled
\* in the order ord in which the entity set is iterated.
RECURSIVE IndexEach(_, _, _, _)
IndexEach(w, dict, ord, i) ==
    IF ~Evaluated(dict) \/ i > Len(ord) THEN dict
    ELSE LET c == w.particles[ord[i]].c
         IN IndexEach(w, Put(dict, c, IF c \in DOMAIN dict THEN Append(dict[c], ord[i])
                                      ELSE <<ord[i]>>), ord, i + 1)


\* ------------------------------------------------------------ state machine
World ==
    [tiles |-> tiles, transparent |-> transparent, cavein |-> cavein,
     dep |-> cavein_dep_graph, outside |-> outside, light |-> light,
     dmg |-> dmg_tiles_d, fall |-> fall_tiles_d, actors |-> actors,
     hp |-> hp, light_fov |-> light_fov, on_fire |-> on_fire,
     fire_orig_light |-> fire_orig_light, particles |-> particles, alive |-> alive,
     next_id |-> next_id, fixtures |-> fixtures, fires |-> fires,
     p_coord_dict |-> p_coord_dict, work_items |-> work_items]

\* The world w, evaluated once, becomes the next state of the program.
SetWorld(w) ==
    \E v \in {w} :
        /\ tiles' = v.tiles
        /\ transparent' = v.transparent
        /\ cavein' = v.cavein
        /\ cavein_dep_graph' = v.dep
        /\ outside' = v.outside
        /\ light' = v.light
        /\ dmg_tiles_d' = v.dmg
        /\ fall_tiles_d' = v.fall
        /\ actors' = v.actors
        /\ hp' = v.hp
        /\ light_fov' = v.light_fov
        /\ on_fire' = v.on_fire
        /\ fire_orig_light' = v.fire_orig_light
        /\ particles' = v.particles
        /\ alive' = v.alive
        /\ next_id' = v.next_id
        /\ fixtures' = v.fixtures
        /\ fires' = v.fires
        /\ p_coord_dict' = v.p_coord_dict
        /\ work_items' = v.work_items

\* History of the LowerVisibility effects.  lv_run[pid] records the level and
\* the transparent flag of the particle's voxel before its first activate,
\* whether anything but the particle's own effect has since changed what the
\* effect reads or writes at that voxel (clean = FALSE), and the level and
\* flag its deactivate left.  own is the set of particles whose effect the
\* step runs.
SameAt(c) ==
    /\ light'[c] = light[c]
    /\ transparent'[c] = transparent[c]
    /\ on_fire'[c] = on_fire[c]
    /\ outside'[<<c[2], c[3]>>] = outside[<<c[2], c[3]>>]
    /\ (c \in DOMAIN light_fov') = (c \in DOMAIN light_fov)
    /\ (c \in DOMAIN light_fov => light_fov'[c] = light_fov[c])
    /\ (c \in DOMAIN fire_orig_light') = (c \in DOMAIN fire_orig_light)

Track(own) ==
    lv_run' = [pid \in DOMAIN lv_run |->
                  IF pid \in own \/ lv_run[pid].ended THEN lv_run[pid]
                  ELSE [lv_run[pid] EXCEPT !.clean = @ /\ SameAt(lv_run[pid].c)]]

\* The tile layouts explored: every voxel Empty but a subset of VarCells,
\* each of which then holds its LayoutTile.
VarCells == { <<1, 0, 1>>, <<1, 1, 1>>, <<1, 2, 1>>, <<1, 2, 2>>, <<1, 1, 2>>,
              <<0, 1, 1>>, <<2, 1, 1>> }
LayoutTile(c) == IF c = <<0, 1, 1>> THEN wall ELSE floor
Layouts == { [c \in Cell |-> IF c \in S THEN LayoutTile(c) ELSE empty] : S \in SUBSET VarCells }
WorkCells == VarCells
BuildTypes == {floor, wall}

\* GameMap.__init__ followed by the map generator's layout.
InitWith(layouts, starts) ==
    /\ tiles \in layouts
    /\ actors \in starts
    /\ transparent = [c \in Cell |-> tile_transparent(tiles[c])]
    /\ cavein = [c \in Cell |-> "None"]
    /\ cavein_dep_graph = [k \in {} |-> {}]
    /\ outside = [c \in Col |-> depth]
    /\ light = [c \in Cell |-> {0}]
    /\ dmg_tiles_d = EmptyDict
    /\ fall_tiles_d = EmptyDict
    /\ hp = [c \in Cell |-> tile_hp(tiles[c])]
    /\ light_fov = EmptyDict
    /\ on_fire = [c \in Cell |-> FALSE]
    /\ fire_orig_light = EmptyDict
    /\ particles = EmptyDict
    /\ alive = {}
    /\ next_id = 1
    /\ fixtures = EmptyDict
    /\ fires = EmptyDict
    /\ p_coord_dict = EmptyDict
    /\ work_items = EmptyDict
    /\ todo = {}
    /\ phase = "new"
    /\ ops = 0
    /\ ticks = 0
    /\ last_op = "none"
    /\ spread_ev = [outcome |-> "none"]
    /\ lv_run = EmptyDict
    /\ result = "none"

\* A map without actors.
InitFrom(layouts) == InitWith(layouts, {<<>>})

Init == InitFrom(Layouts)

AllInit ==
    /\ phase = "new"
    /\ SetWorld(all_init(World))
    /\ phase' = "ready"
    /\ last_op' = "all_init"
    /\ result' = "ok"
    /\ UNCHANGED <<ops, ticks, todo, spread_ev>>
    /\ Track({})

Apply(op, r) ==
    \E v \in {r} :
    /\ SetWorld(v.w)
    /\ last_op' = op
    /\ result' = IF v.raised THEN "Impossible" ELSE "ok"
    /\ ops' = IF v.raised THEN ops ELSE ops + 1
    /\ UNCHANGED <<phase, ticks, todo, spread_ev>>
    /\ Track({})

RemoveVoxel(cells) ==
    /\ phase = "ready"
    /\ ops < MaxOps
    /\ \E c \in cells : Apply("remove_voxel", remove_voxel(World, c))

AddVoxel(cells) ==
    /\ phase = "ready"
    /\ ops < MaxOps
    /\ \E c \in cells, t \in BuildTypes : Apply("add_voxel", add_voxel(World, c, t))

Next == AllInit \/ RemoveVoxel(WorkCells) \/ AddVoxel(WorkCells)

Spec == Init /\ [][Next]_vars

\* ------------------------------------------- state machine of the effects
\* The orders in which the entity set may be iterated.  The dicts that
\* particle_spread and IncreaseVisibility.activate build from it depend only
\* on the relative order of the particles that share a voxel, so one order
\* stands for each such arrangement: voxel after voxel, the particles of a
\* voxel in every permutation.
RECURSIVE Perms(_)
Perms(S) ==
    IF S = {} THEN {<<>>}
    ELSE UNION {{<<a>> \o o : o \in Perms(S \ {a})} : a \in S}

RECURSIVE OrdersFrom(_, _, _)
OrdersFrom(w, vs, i) ==
    IF i > Len(vs) THEN {<<>>}
    ELSE {o \o r : o \in Perms({q \in w.alive : w.particles[q].c = vs[i]}),
                   r \in OrdersFrom(w, vs, i + 1)}

Orders(w) ==
    OrdersFrom(w, SelectSeq(CellSeq, LAMBDA c : \E q \in w.alive : w.particles[q].c = c), 1)

\* The factory prototypes (entity_factories): smoke that stays in its voxel
\* and thins by 1 per turn, and smoke / dust that spread every turn.
Proto(ptype, num, den, rate, decay, per) ==
    [c |-> <<0, 0, 0>>, particle_type |-> ptype, sd_num |-> num, sd_den |-> den,
     spread_rate |-> rate, spread_value |-> 0, density |-> 0, density_decay |-> decay,
     per_density_amt |-> per, base_value |-> None, base_transparency |-> None]

StillProtos == {Proto("SMOKE", 0, 1, 0, 1, 1)}
SpreadProtos == {Proto("SMOKE", 1, 2, 1, 0, 2), Proto("SMOKE", 1, 4, 1, 1, 2),
                 Proto("DUST", 3, 4, 1, 0, 2)}

\* A factory spawns a particle: proto.spawn(gamemap, z, x, y, density).
Spawn(protos, cells, densities) ==
    /\ phase = "ready"
    /\ next_id <= MaxParticles
    /\ \E proto \in protos, c \in cells, d \in densities :
           SetWorld(Particle_spawn(World, proto, c, d))
    /\ last_op' = "spawn"
    /\ result' = "ok"
    /\ UNCHANGED <<todo, phase, ops, ticks, spread_ev>>
    /\ Track({})

\* particle_spread, up to its first loop: the dict of particles by voxel.
TickBegin ==
    /\ phase = "ready"
    /\ ticks < MaxTicks
    /\ alive # {}
    /\ \E ord \in Orders(World) :
           SetWorld([World EXCEPT !.p_coord_dict = IndexEach(World, EmptyDict, ord, 1)])
    /\ todo' = alive
    /\ phase' = "spread"
    /\ last_op' = "particle_spread"
    /\ result' = "ok"
    /\ UNCHANGED <<ops, ticks, spread_ev>>
    /\ Track({})

\* What a Particle.spread call did, read off the states before and after.
RECURSIVE SumOver(_, _)
SumOver(f, S) ==
    IF S = {} THEN 0
    ELSE LET a == CHOOSE a \in S : TRUE IN f[a] + SumOver(f, S \ {a})

SpreadEvent(w, r, pid) ==
    LET p0 == w.particles[pid]
        d1 == p0.density - p0.density_decay
        ts == available_tiles(w, p0.c)
        dests == {ts[i] : i \in 1 .. Len(ts)}
        gain == [q \in DOMAIN r.w.particles \ {pid} |->
                    r.w.particles[q].density
                    - (IF q \in DOMAIN w.particles THEN w.particles[q].density ELSE 0)]
        recv == [t \in dests |->
                    SumOver(gain, {q \in DOMAIN gain : r.w.particles[q].c = t})]
        found == {t \in dests : t \in DOMAIN w.p_coord_dict
                                 /\ FirstOfType(w, w.p_coord_dict[t], 1, p0.particle_type) # 0}
    IN [outcome |-> IF d1 <= 0 THEN (IF r.raised THEN "raised" ELSE "died")
                    ELSE IF p0.spread_rate = 0 \/ p0.spread_value + 1 < p0.spread_rate
                    THEN "waited"
                    ELSE IF r.raised THEN "raised" ELSE "spread",
        pid |-> pid, before |-> d1, after |-> r.w.particles[pid].density,
        sd_num |-> p0.sd_num, sd_den |-> p0.sd_den,
        n |-> Len(ts), recv |-> recv, spawned |-> DOMAIN r.w.particles \ DOMAIN w.particles,
        found |-> found]

\* Drop the objects nothing refers to once particle_spread has returned.
Collect(w) ==
    [w EXCEPT !.particles = [q \in w.alive |-> w.particles[q]],
              !.p_coord_dict = EmptyDict]

\* One iteration of "for p in set(self.particles): p.spread(p_coord_dict)".
\* An exception leaves particle_spread; the activations are then skipped.
SpreadOne ==
    /\ phase = "spread"
    /\ \E pid \in todo :
          LET r == Particle_spread(World, pid)
              last == todo = {pid}
              over == r.raised \/ (last /\ r.w.alive = {})
              c == particles[pid].c
              died == ~r.raised /\ pid \notin r.w.alive
          IN /\ SetWorld(IF over THEN Collect(r.w) ELSE r.w)
             /\ todo' = IF over THEN {} ELSE IF last THEN r.w.alive ELSE todo \ {pid}
             /\ phase' = IF over THEN "ready" ELSE IF last THEN "activate" ELSE "spread"
             /\ ticks' = IF over THEN ticks + 1 ELSE ticks
             /\ result' = IF r.raised THEN "error" ELSE "ok"
             /\ spread_ev' = SpreadEvent(World, r, pid)
             /\ lv_run' = [q \in DOMAIN lv_run |->
                              IF q = pid
                              THEN IF died /\ ~lv_run[q].ended
                                   THEN [lv_run[q] EXCEPT
                                            !.ended = TRUE,
                                            !.post_level = get_light_tile(r.w.light, c[1], c[2], c[3]),
                                            !.post_transparent = r.w.transparent[c]]
                                   ELSE lv_run[q]
                              ELSE IF lv_run[q].ended THEN lv_run[q]
                              ELSE [lv_run[q] EXCEPT !.clean = @ /\ SameAt(lv_run[q].c)]]
    /\ last_op' = "spread"
    /\ UNCHANGED ops

\* setup_game: light_src.spawn(gamemap, z, x, y) and effect.activate().
PlaceLight(cells) ==
    /\ phase = "ready"
    /\ Cardinality(DOMAIN fixtures) < MaxFixtures
    /\ \E c \in cells, ord \in Orders(World) :
          LET fid == Cardinality(DOMAIN fixtures) + 1
              w1 == [World EXCEPT !.fixtures = Put(@, fid, [c |-> c, l1 |-> <<>>, l2 |-> <<>>,
                                                           state |-> "active"])]
          IN SetWorld(IncreaseVisibility_activate(w1, fid, ParticleAt(w1, EmptyDict, ord, 1)))
    /\ last_op' = "light_on"
    /\ result' = "ok"
    /\ UNCHANGED <<todo, phase, ops, ticks, spread_ev>>
    /\ Track({})

\* The fixture's effect.deactivate(), once per activation.
RemoveLight ==
    /\ phase = "ready"
    /\ \E fid \in DOMAIN fixtures :
          /\ fixtures[fid].state = "active"
          /\ SetWorld([IncreaseVisibility_deactivate(World, fid)
                          EXCEPT !.fixtures[fid].state = "done"])
    /\ last_op' = "light_off"
    /\ result' = "ok"
    /\ UNCHANGED <<todo, phase, ops, ticks, spread_ev>>
    /\ Track({})

\* A Fire entity is created one turn short of its burning point.
SpawnFire(cells) ==
    /\ phase = "ready"
    /\ Cardinality(DOMAIN fires) < MaxFires
    /\ \E c \in cells :
          SetWorld([World EXCEPT !.fires = Put(@, Cardinality(DOMAIN fires) + 1,
                                               [c |-> c, turn_count |-> BURNING_POINT - 1])])
    /\ last_op' = "fire"
    /\ result' = "ok"
    /\ UNCHANGED <<todo, phase, ops, ticks, spread_ev>>
    /\ Track({})

FireTurn ==
    /\ phase = "ready"
    /\ \E fid \in DOMAIN fires :
          /\ fires[fid].turn_count <= BURNING_POINT + 1
          /\ LET r == Fire_handle_turn(World, fid)
             IN /\ SetWorld(r.w)
                /\ result' = IF r.raised THEN "Impossible" ELSE "ok"
    /\ last_op' = "fire_turn"
    /\ UNCHANGED <<todo, phase, ops, ticks, spread_ev>>
    /\ Track({})

UpdateTiles ==
    /\ phase = "ready"
    /\ \E c \in Cell : on_fire[c]
    /\ SetWorld(update_tiles(World))
    /\ last_op' = "update_tiles"
    /\ result' = "ok"
    /\ UNCHANGED <<todo, phase, ops, ticks, spread_ev>>
    /\ Track({})

\* One iteration of "for p in self.particles: p.effect.activate()".
ActivateOne ==
    /\ phase = "activate"
    /\ \E pid \in todo :
          LET w1 == LowerVisibility_activate(World, pid)
              last == todo = {pid}
              c == particles[pid].c
          IN /\ SetWorld(IF last THEN Collect(w1) ELSE w1)
             /\ todo' = todo \ {pid}
             /\ phase' = IF last THEN "ready" ELSE "activate"
             /\ ticks' = IF last THEN ticks + 1 ELSE ticks
             /\ lv_run' = [q \in DOMAIN lv_run \cup {pid} |->
                              IF q = pid
                              THEN IF pid \in DOMAIN lv_run
                                   THEN [lv_run[pid] EXCEPT !.calls = IF @ < 2 THEN @ + 1 ELSE @]
                                   ELSE [c |-> c,
                                         pre_level |-> get_light_tile(light, c[1], c[2], c[3]),
                                         pre_transparent |-> transparent[c],
                                         clean |-> TRUE, calls |-> 1, ended |-> FALSE,
                                         post_level |-> 0, post_transparent |-> FALSE]
                              ELSE IF lv_run[q].ended THEN lv_run[q]
                              ELSE [lv_run[q] EXCEPT !.clean = @ /\ SameAt(lv_run[q].c)]]
    /\ last_op' = "activate"
    /\ result' = "ok"
    /\ UNCHANGED <<ops, spread_ev>>

\* The layouts, voxels and densities the effects are explored on.
EnvLayouts ==
    { [c \in Cell |-> IF c \in S THEN floor ELSE empty] :
        S \in { {<<1, 0, 1>>}, {c \in Cell : c[1] = 1} } }
ParticleCells == { <<0, 0, 1>>, <<1, 1, 1>> }
LightCells == { <<0, 1, 1>>, <<0, 3, 3>> }
FireCells == { <<1, 1, 1>>, <<0, 0, 1>> }
StillDensities == {2, 3}
EnvWorkCells == { <<1, 1, 1>> }

InitEffect == InitFrom(EnvLayouts)

NextEffect ==
    \/ AllInit
    \/ Spawn(StillProtos, ParticleCells, StillDensities)
    \/ TickBegin
    \/ SpreadOne
    \/ ActivateOne
    \/ PlaceLight(LightCells)
    \/ RemoveLight
    \/ SpawnFire(FireCells)
    \/ FireTurn
    \/ UpdateTiles
    \/ RemoveVoxel(EnvWorkCells)
    \/ AddVoxel(EnvWorkCells)

SpecEffect == InitEffect /\ [][NextEffect]_vars

\* -------------------------------------- state machine of particle spread
\* Layouts that leave a particle at the corner (0,0,0) one, two or four
\* destinations, the voxel and the densities the factory spawns with.
SpreadLayouts ==
    { [c \in Cell |-> IF c \in W THEN wall ELSE IF c = <<1, 0, 1>> THEN floor ELSE empty] :
        W \in { {}, {<<0, 1, 0>>, <<0, 1, 1>>}, {<<0, 1, 0>>, <<0, 1, 1>>, <<1, 0, 0>>} } }
SpreadCells == { <<0, 0, 0>> }
SpreadDensities == {5, 8, 16}

InitSpread == InitFrom(SpreadLayouts)

NextSpread ==
    \/ AllInit
    \/ Spawn(SpreadProtos, SpreadCells, SpreadDensities)
    \/ TickBegin
    \/ SpreadOne
    \/ ActivateOne

SpecSpread == InitSpread /\ [][NextSpread]_vars

\* ------------------------------------------------ the support relation
\* a supports b in the flood of get_cavein_neighbors: in-plane 4-neighbours,
\* a Wall/Door b hanging directly below a, or b resting on a Wall/Door a.
support_adjacent(tl, a, b) ==
    /\ tl[a] # empty /\ tl[b] # empty
    /\ \/ /\ b[1] = a[1]
          /\ \/ (b[2] = a[2] /\ (b[3] = a[3] - 1 \/ b[3] = a[3] + 1))
             \/ (b[3] = a[3] /\ (b[2] = a[2] - 1 \/ b[2] = a[2] + 1))
       \/ /\ b[2] = a[2] /\ b[3] = a[3]
          /\ \/ (b[1] = a[1] - 1 /\ tl[b] \in {wall, door})
             \/ (b[1] = a[1] + 1 /\ tl[a] \in {wall, door})

\* The voxels a full flood from the non-Empty boundary voxels reaches.
RECURSIVE FloodFrom(_, _)
FloodFrom(tl, S) ==
    LET filled == {b \in Cell : tl[b] # empty}
        T == S \cup {b \in filled \ S : \E a \in S : support_adjacent(tl, a, b)}
    IN IF T = S THEN S ELSE FloodFrom(tl, T)

Reflood(tl) ==
    FloodFrom(tl, {c \in Cell : tl[c] # empty /\ is_edge_tile(c[1], c[2], c[3])})

\* ---------------------------------------------------------------- claims
\* C1: after all_init and any completed add / remove operations, a voxel is
\* marked Supported iff it is non-Empty and a full re-flood of the current
\* grid reaches it from a non-Empty boundary voxel.
C1_SupportEqualsReflood ==
    phase = "ready" => {c \in Cell : cavein[c] = "True"} = Reflood(tiles)

\* C2: after all_init and every completed add / remove, every key of the
\* dependency graph is a voxel that is Supported and non-Empty, and every
\* member of every value set is a voxel that is Supported.
C2_NoDanglingDependency ==
    phase = "ready" =>
        \A k \in DOMAIN cavein_dep_graph :
            /\ cavein[k] = "True"
            /\ tiles[k] # empty
            /\ \A s \in cavein_dep_graph[k] : cavein[s] = "True"

\* A remove whose cascade collapsed further voxels and left edges behind.
C2_Witness ==
    /\ last_op = "remove_voxel" /\ result = "ok"
    /\ Cardinality(DOMAIN fall_tiles_d) >= 2
    /\ DOMAIN cavein_dep_graph # {}

\* C7: a step whose operation is rejected with Impossible leaves the tile
\* grid (with its transparent flags), the support state, the dependency
\* graph, the exposure map and the light planes as they were.
C7_RejectedLeavesWorld ==
    [][result' = "Impossible" =>
          UNCHANGED <<tiles, transparent, cavein, cavein_dep_graph, outside, light>>]_vars

\* A rejected operation on a world that earlier operations have changed.
C7_Witness ==
    result = "Impossible" /\ ops >= 1 /\ last_op \in {"remove_voxel", "add_voxel"}

\* C8: after all_init and every completed add / remove, a voxel's tile is
\* Empty iff its support state is collapsed (cavein False); none is left
\* Unknown (None) or filled but unsupported.
C8_EmptyIffCollapsed ==
    phase = "ready" =>
        \A c \in Cell : (tiles[c] = empty) <=> (cavein[c] = "False")

\* A remove with a cascade, after an earlier operation.
C8_Witness ==
    /\ last_op = "remove_voxel" /\ result = "ok" /\ ops >= 2
    /\ \E a \in DOMAIN fall_tiles_d, b \in DOMAIN fall_tiles_d :
           a # b /\ tiles[a] = empty /\ cavein[b] = "False"

\* The z of the top-most non-Empty voxel of a column, -1 when there is none.
TopFilled(x, y) ==
    LET zs == {z \in 0 .. depth - 1 : tiles[<<z, x, y>>] # empty}
    IN IF zs = {} THEN -1 ELSE CHOOSE z \in zs : \A k \in zs : k <= z

\* C9: after all_init and any add / remove operations, the exposure entry of
\* every column is the z of the first non-Empty voxel from the top, -1 when
\* the column has none.
C9_ExposureIsTopFilled ==
    phase = "ready" => \A c \in Col : outside[c] = TopFilled(c[1], c[2])

\* A collapse has lowered a column's exposure depth onto a lower voxel.
C9_Witness ==
    /\ last_op = "remove_voxel" /\ result = "ok"
    /\ \E c \in DOMAIN fall_tiles_d :
           fall_tiles_d[c] >= 0 /\ outside[<<c[2], c[3]>>] = fall_tiles_d[c]

\* C3: in every reachable state every voxel has exactly one of the five
\* light planes true.
C3_OneLightPlane ==
    \A c \in Cell : Cardinality(light[c]) = 1

\* A fixture's light is switched off, after a build or a removal, while a
\* voxel it lit is burning and a particle's effect is active.
C3_Witness ==
    /\ ops >= 1 /\ last_op = "light_off"
    /\ \E fid \in DOMAIN fixtures :
          /\ fixtures[fid].state = "done"
          /\ \E i \in DOMAIN fixtures[fid].l2 : on_fire[fixtures[fid].l2[i]]
    /\ \E pid \in alive : particles[pid].base_value # None

\* C4: once a LowerVisibility effect has been activated one or more times
\* and then deactivated, with nothing else touching its voxel in between,
\* the voxel's light level and transparent flag are what they were
\* immediately before the first activate.
C4_DeactivateRestores ==
    \A pid \in DOMAIN lv_run :
        lv_run[pid].ended /\ lv_run[pid].clean =>
            /\ lv_run[pid].post_level = lv_run[pid].pre_level
            /\ lv_run[pid].post_transparent = lv_run[pid].pre_transparent

\* The share of each destination of the last spread event, and whether the
\* event met the merge cap: a destination held a particle of the type and
\* that particle was left as it was although the share is positive.
EventTotal == (spread_ev.before * spread_ev.sd_num) \div spread_ev.sd_den
EventShare == EventTotal \div spread_ev.n
EventCapped == \E t \in spread_ev.found : EventShare > 0 /\ spread_ev.recv[t] = 0
EventReceived == SumOver(spread_ev.recv, DOMAIN spread_ev.recv)

\* C5: after a spread event that met no merge cap, the density of the source
\* plus what the destinations received is at most the source's density
\* before the event (after its per-turn decay), and falls short of it by
\* no more than one unit per destination.
C5_SpreadKeepsDensity ==
    spread_ev.outcome = "spread" /\ ~EventCapped =>
        /\ spread_ev.after + EventReceived <= spread_ev.before
        /\ spread_ev.before - (spread_ev.after + EventReceived) <= spread_ev.n

\* A spread event that added its share to a particle already there.
C5_Witness ==
    /\ spread_ev.outcome = "spread" /\ ~EventCapped
    /\ \E t \in spread_ev.found : spread_ev.recv[t] > 0

\* C6: on a spread event the source's density drops by exactly
\* T = floor(density * spread_decay) and every destination that held no
\* particle of the type receives floor(T / n).
C6_ExactShares ==
    spread_ev.outcome = "spread" =>
        /\ spread_ev.before - spread_ev.after = EventTotal
        /\ \A t \in DOMAIN spread_ev.recv \ spread_ev.found : spread_ev.recv[t] = EventShare

\* C10: a voxel below its column's exposure depth that is not on fire has
\* light level at most 3.
C10_IndoorAtMostThree ==
    \A c \in Cell :
        c[1] < outside[<<c[2], c[3]>>] /\ ~on_fire[c] =>
            get_light_tile(light, c[1], c[2], c[3]) <= 3

\* particle_spread has returned without an exception: its last loop ran to
\* the end, or no particle was left for it.
TickEnded == phase = "ready" /\ last_op \in {"spread", "activate"} /\ result = "ok"

\* C11: at the end of every particle_spread, every particle still in the
\* world has density strictly greater than 0.
C11_AliveDensityPositive ==
    TickEnded => \A pid \in alive : particles[pid].density > 0

\* The effects applied to voxel c: the LowerVisibility of each particle in c
\* that has been activated, and each lit fixture whose rings hold c.
LoweringAt(c) == {pid \in alive : particles[pid].c = c /\ particles[pid].base_value # None}
RaisingAt(c) ==
    {fid \in DOMAIN fixtures :
        /\ fixtures[fid].state = "active"
        /\ \/ \E i \in DOMAIN fixtures[fid].l1 : fixtures[fid].l1[i] = c
           \/ \E i \in DOMAIN fixtures[fid].l2 : fixtures[fid].l2[i] = c}

\* C12: at any time at most one environment effect is applied to a voxel.
C12_OneEffectPerVoxel ==
    \A c \in Cell : Cardinality(LoweringAt(c)) + Cardinality(RaisingAt(c)) <= 1

\* GameMap.particle_spread as one function of the world and of the orders in
\* which its three loops meet the particles: ord fills the dict, sord is the
\* order of "for p in set(self.particles)", and the activations follow an
\* order of the particles then alive.  The result is the set of worlds the
\* call can return, each with the exception flag.
RECURSIVE SpreadAll(_, _, _)
SpreadAll(w, sord, i) ==
    IF i > Len(sord) THEN [w |-> w, raised |-> FALSE]
    ELSE LET r == Particle_spread(w, sord[i])
         IN IF r.raised THEN r ELSE SpreadAll(r.w, sord, i + 1)

RECURSIVE ActivateAll(_, _, _)
ActivateAll(w, aord, i) ==
    IF i > Len(aord) THEN w
    ELSE ActivateAll(LowerVisibility_activate(w, aord[i]), aord, i + 1)

particle_spread(w, ord, sord) ==
    LET r == SpreadAll([w EXCEPT !.p_coord_dict = IndexEach(w, EmptyDict, ord, 1)], sord, 1)
    IN IF r.raised THEN {[w |-> Collect(r.w), raised |-> TRUE]}
       ELSE {[w |-> Collect(ActivateAll(r.w, aord, 1)), raised |-> FALSE] : aord \in Orders(r.w)}

\* What a turn leaves to be seen: the particles (voxel, type, density, each
\* with the number of particles alike), the light levels, the transparency.
Seen(r) ==
    LET look(q) == [c |-> r.w.particles[q].c, particle_type |-> r.w.particles[q].particle_type,
                    density |-> r.w.particles[q].density]
    IN [particles |-> {<<x, Cardinality({q \in r.w.alive : look(q) = x})>> :
                          x \in {look(q) : q \in r.w.alive}},
        light |-> r.w.light, transparent |-> r.w.transparent, raised |-> r.raised]

TurnOutcomes(w) ==
    UNION {{Seen(r) : r \in particle_spread(w, ord, sord)} :
              ord \in Orders(w), sord \in Perms(w.alive)}

\* C13: a turn is deterministic: from a world state the particle pass has one
\* outcome (particles, densities, light levels, transparency), whatever the
\* order in which the entity set is iterated.
C13_TurnDeterministic ==
    phase = "ready" => Cardinality(TurnOutcomes(World)) <= 1

\* C14: on a fixed grid and exposure map the seed-then-diffuse pass gives the
\* same light levels each time it is run: whatever levels the voxels hold
\* when it starts (those of a new map, those the operations have left, those
\* of an earlier pass), it seeds the same levels and ends with identical
\* levels at every voxel.
C14_LightPassRepeatable ==
    phase # "new" =>
        \E once \in {light_init(World)} :
            /\ light_init(once).light = once.light
            /\ light_init([World EXCEPT !.light = [c \in Cell |-> {0}]]).light = once.light

\* The pass has levels to overwrite: operations have left an indoor voxel
\* with another level than the pass gives it.
C14_Witness ==
    /\ phase # "new"
    /\ \E c \in Cell : /\ c[1] < outside[<<c[2], c[3]>>]
                       /\ light[c] # light_init(World).light[c]

wall_adjacent(tl, a, b) ==
    /\ tl[a] # empty /\ tl[b] # empty
    /\ \/ /\ b[1] = a[1]
          /\ \/ (b[2] = a[2] /\ (b[3] = a[3] - 1 \/ b[3] = a[3] + 1))
             \/ (b[3] = a[3] /\ (b[2] = a[2] - 1 \/ b[2] = a[2] + 1))
       \/ /\ b[2] = a[2] /\ b[3] = a[3]
          /\ (b[1] = a[1] - 1 \/ b[1] = a[1] + 1)
          /\ tl[a] \in {wall, door}

RECURSIVE WallFloodFrom(_, _)
WallFloodFrom(tl, S) ==
    LET filled == {b \in Cell : tl[b] # empty}
        T == S \cup {b \in filled \ S : \E a \in S : wall_adjacent(tl, a, b)}
    IN IF T = S THEN S ELSE WallFloodFrom(tl, T)

\* C16: vertical support is conferred only by Wall/Door voxels.  The flood
\* of all_init leaves Supported exactly the voxels reached when a Supported
\* voxel supports its vertical neighbour iff it is itself a Wall or Door;
\* and an add accepted at an inner voxel has a Supported in-plane neighbour
\* or a Supported Wall/Door directly above or below the voxel built.
C16_VerticalSupportFromWalls ==
    [][/\ phase = "new" /\ phase' = "ready" =>
              {c \in Cell : cavein'[c] = "True"} =
                  WallFloodFrom(tiles, {c \in Cell : tiles[c] # empty
                                                      /\ is_edge_tile(c[1], c[2], c[3])})
       /\ last_op' = "add_voxel" /\ ops' = ops + 1 =>
              \A b \in Cell :
                  tiles'[b] # tiles[b] /\ ~is_edge_tile(b[1], b[2], b[3]) =>
                      \E a \in Cell : cavein[a] = "True" /\ wall_adjacent(tiles', a, b)]_vars

\* ------------------------------- histories of all_init and removes only
NextRemove == AllInit \/ RemoveVoxel(WorkCells)

SpecRemove == Init /\ [][NextRemove]_vars

\* C17: after all_init and any earlier removes, remove(v) leaves Supported
\* exactly the voxels that a full re-flood of the grid without v reaches:
\* only v and the voxels no longer reachable from a boundary anchor become
\* Empty, and a voxel that still has a support path is not collapsed.
C17_RemoveEqualsReflood ==
    phase = "ready" =>
        \A v \in WorkCells :
            tiles[v] # empty =>
                \E r \in {remove_voxel(World, v)} :
                    /\ ~r.raised
                    /\ {c \in Cell : r.w.cavein[c] = "True"} = Reflood([tiles EXCEPT ![v] = empty])
                    /\ {c \in Cell : r.w.tiles[c] # empty} = Reflood([tiles EXCEPT ![v] = empty])

ActorCells == { <<0, 1, 1>>, <<1, 1, 1>>, <<2, 1, 1>> }
ActorHps == {100}
ActorDefenses == {0, 10, 15}
ActorStarts ==
    { << [c |-> c, hp |-> h, defense |-> d] >> :
          c \in ActorCells, h \in ActorHps, d \in ActorDefenses }

\* The layouts of the damage pass: Floors in and beside that column, the
\* inner voxel of the column a Floor or a Wall.
DamageCells == { <<0, 1, 1>>, <<1, 1, 1>>, <<2, 1, 1>>, <<1, 0, 1>>, <<1, 2, 1>> }
DamageLayouts ==
    { [c \in Cell |-> IF c \notin S THEN empty ELSE IF c = <<1, 1, 1>> THEN t ELSE floor] :
          S \in SUBSET DamageCells, t \in {floor, wall} }

InitDamage == InitWith(DamageLayouts, ActorStarts)

SpecDamage == InitDamage /\ [][Next]_vars

\* The step ran a damage pass: all_init, or a remove that was accepted.
DamagePassed ==
    \/ phase = "new" /\ phase' = "ready"
    \/ last_op' = "remove_voxel" /\ ops' = ops + 1

\* The voxels the pass turned from filled to Empty, and of those the ones
\* whose nearest non-Empty voxel below, after the pass, is L.
Flipped == {c \in Cell : tiles[c] # empty /\ tiles'[c] = empty}
LandedOn(L) ==
    {c \in Flipped : /\ c[2] = L[2] /\ c[3] = L[3] /\ c[1] > L[1]
                     /\ \A k \in (L[1] + 1) .. (c[1] - 1) : tiles'[<<k, c[2], c[3]>>] = empty}

\* C19: in a damage pass the count recorded for a surviving voxel L is the
\* number of voxels of L's column that the pass turned Empty and whose
\* nearest non-Empty voxel below is L, and an actor at L loses
\* 10 * count - defense hit points when that is positive, nothing otherwise.
C19_DebrisCount ==
    [][DamagePassed =>
          \A L \in Cell :
              tiles'[L] # empty =>
                  \E n \in {Cardinality(LandedOn(L))} :
                      /\ IF n = 0 THEN L \notin DOMAIN dmg_tiles_d'
                         ELSE L \in DOMAIN dmg_tiles_d' /\ dmg_tiles_d'[L] = n
                      /\ \A i \in DOMAIN actors :
                             actors[i].c = L =>
                                 actors'[i].hp = actors[i].hp
                                     - (IF 10 * n - actors[i].defense > 0
                                        THEN 10 * n - actors[i].defense ELSE 0)]_vars

\* Two voxels have come down on the actor's voxel at once and have hurt it.
C19_Witness ==
    /\ last_op = "remove_voxel" /\ result = "ok"
    /\ \E i \in DOMAIN actors :
           /\ actors[i].c \in DOMAIN dmg_tiles_d
           /\ dmg_tiles_d[actors[i].c] = 2
           /\ actors[i].defense = 15
           /\ actors[i].hp = 95

\* The depth of the nearest non-Empty voxel below c after the pass, -1 when
\* the column below c is Empty.
LandingDepth(c) ==
    LET below == {k \in 0 .. (c[1] - 1) : tiles'[<<k, c[2], c[3]>>] # empty}
    IN IF below = {} THEN -1 ELSE CHOOSE k \in below : \A j \in below : j <= k

\* C20: an actor standing in a voxel that a damage pass turns Empty, with a
\* non-Empty voxel below it in the column, ends the pass at the nearest such
\* voxel with its hit points reduced by 5 times the levels fallen.
C20_ActorFalls ==
    [][DamagePassed =>
          \A i \in DOMAIN actors :
              \E c \in {actors[i].c} :
                  (c \in Flipped /\ LandingDepth(c) >= 0) =>
                      /\ actors'[i].c = <<LandingDepth(c), c[2], c[3]>>
                      /\ actors'[i].hp = actors[i].hp - 5 * (c[1] - LandingDepth(c))]_vars

\* An actor has fallen two levels with the voxel it stood in and has lost
\* ten hit points.
C20_Witness ==
    /\ last_op = "remove_voxel" /\ result = "ok" /\ ops = 1
    /\ \E i \in DOMAIN actors :
           /\ actors[i].c = <<0, 1, 1>>
           /\ actors[i].hp = 90
           /\ actors[i].defense = 15
           /\ <<2, 1, 1>> \in DOMAIN fall_tiles_d
           /\ fall_tiles_d[<<2, 1, 1>>] = 0

\* C21: an actor standing in a voxel that a damage pass turns Empty, with no
\* non-Empty voxel left below it in the column, is removed: after the pass
\* there are fewer living actors, and none stands in a voxel the pass emptied.
C21_OffGridRemoved ==
    [][DamagePassed =>
          \A i \in DOMAIN actors :
              \E c \in {actors[i].c} :
                  (c \in Flipped /\ LandingDepth(c) < 0) =>
                      /\ Len(actors') < Len(actors)
                      /\ \A j \in DOMAIN actors' : actors'[j].c \notin Flipped]_vars

\* The hit points a damage pass takes from an actor standing at c with the
\* given defense: by debris, when debris came down on c, and by a fall, when
\* c was turned Empty over a landing voxel.
DebrisEvent(c, defense) ==
    IF c \in DOMAIN dmg_tiles_d' /\ 10 * dmg_tiles_d'[c] - defense > 0
    THEN 10 * dmg_tiles_d'[c] - defense ELSE 0
FallEvent(c) ==
    IF c \in Flipped /\ LandingDepth(c) >= 0 THEN 5 * (c[1] - LandingDepth(c)) ELSE 0

\* C22: in one damage pass an actor is hurt by debris or by its fall, never
\* by both: no voxel is both a debris landing and a fallen voxel, the actor
\* loses the debris amount of the voxel it stood in or else its fall amount,
\* and the debris on the voxel it lands on is not added.
C22_OneDamageEvent ==
    [][DamagePassed =>
          \A i \in DOMAIN actors :
              \E c \in {actors[i].c} :
                  /\ ~(c \in DOMAIN dmg_tiles_d' /\ c \in DOMAIN fall_tiles_d')
                  /\ actors[i].hp - actors'[i].hp =
                        IF c \in DOMAIN dmg_tiles_d'
                        THEN DebrisEvent(c, actors[i].defense)
                        ELSE FallEvent(c)]_vars

\* An actor without defense has fallen one level onto the voxel that the
\* debris of its own voxel came down on, and has lost the fall damage only.
C22_Witness ==
    /\ last_op = "remove_voxel" /\ result = "ok" /\ ops = 1
    /\ \E i \in DOMAIN actors :
           /\ actors[i].c = <<0, 1, 1>>
           /\ actors[i].defense = 0
           /\ actors[i].hp = 95
           /\ <<0, 1, 1>> \in DOMAIN dmg_tiles_d
           /\ <<1, 1, 1>> \in DOMAIN fall_tiles_d
           /\ fall_tiles_d[<<1, 1, 1>>] = 0

\* The columns whose exposure depth the step lowers.
LoweredCols == {col \in Col : outside'[col] < outside[col]}

\* C23: when a damage pass lowers a column's exposure depth, every voxel of
\* the column at or above the new depth has light level 4 afterwards, also
\* when the column is left without a non-Empty voxel; and a remove leaves
\* the light of the voxels of every other column as it was.
C23_ReexposedColumnLit ==
    [][DamagePassed =>
          /\ \A col \in LoweredCols : \A z \in 0 .. (depth - 1) :
                 z >= outside'[col] => get_light_tile(light', z, col[1], col[2]) = 4
          /\ phase = "ready" =>
                 \A c \in Cell : <<c[2], c[3]>> \notin LoweredCols => light'[c] = light[c]]_vars

\* A remove has lowered a column's exposure depth by two levels or more and
\* the voxels it opened are lit, while an indoor voxel of another column has
\* kept a level below 4.
C23_Witness ==
    /\ last_op = "remove_voxel" /\ result = "ok"
    /\ \E c \in DOMAIN fall_tiles_d :
           /\ outside[<<c[2], c[3]>>] = fall_tiles_d[c]
           /\ c[1] - fall_tiles_d[c] >= 2
           /\ \A z \in (fall_tiles_d[c] + 1) .. c[1] : get_light_tile(light, z, c[2], c[3]) = 4
    /\ \E c \in Cell :
           /\ c[1] < outside[<<c[2], c[3]>>]
           /\ get_light_tile(light, c[1], c[2], c[3]) < 4

\* C24: when an accepted add places a voxel at z above the exposure depth o
\* of its column, the exposure entry becomes z and each voxel of the column
\* in [o, z) holds the level that diffusing it from its in-plane neighbours
\* gives.
C24_AddRediffuses ==
    [][(last_op' = "add_voxel" /\ ops' = ops + 1) =>
          \A c \in Cell :
              (tiles[c] # tiles'[c] /\ outside[<<c[2], c[3]>>] < c[1]) =>
                  /\ outside'[<<c[2], c[3]>>] = c[1]
                  /\ \A k \in 0 .. (c[1] - 1) :
                         k >= outside[<<c[2], c[3]>>] =>
                             light'[<<k, c[2], c[3]>>] =
                                 diffuse_tile(light, k, c[2], c[3])[<<k, c[2], c[3]>>]]_vars

\* The position of a voxel in the order of the pass, and the indoor voxels.
CellIndex(c) == c[1] * (width * height) + c[2] * height + c[3]
Indoor(c) == c[1] < outside[<<c[2], c[3]>>]
Neighbours8(c) ==
    {n \in Cell : /\ n[1] = c[1] /\ n # c
                  /\ n[2] - c[2] \in {-1, 0, 1} /\ n[3] - c[3] \in {-1, 0, 1}}

\* C25: after the seed-and-diffuse pass every outdoor voxel holds 4 and every
\* indoor voxel c holds floor(sum / count) - 1, a level in 0..4, where the
\* sum is over the in-bounds in-plane neighbours of (level + 1), the level of
\* a neighbour being 4 when it is outdoor, the level the pass has written
\* when it is indoor and visited before c, and the seed 1 otherwise.
C25_DiffusionFormula ==
    phase # "new" =>
        \E L \in {light_init(World).light} :
            \A c \in Cell :
                IF Indoor(c)
                THEN \E read \in {[n \in Neighbours8(c) |->
                                     1 + (IF ~Indoor(n) THEN 4
                                          ELSE IF CellIndex(n) < CellIndex(c)
                                          THEN get_light_tile(L, n[1], n[2], n[3])
                                          ELSE 1)]} :
                         \E lv \in {(SumOver(read, Neighbours8(c)) \div Cardinality(Neighbours8(c))) - 1} :
                             lv \in 0 .. 4 /\ L[c] = {lv}
                ELSE L[c] = {4}

\* An indoor voxel has an indoor neighbour that the pass visits before it
\* and leaves at a level other than the seed.
C25_Witness ==
    /\ last_op = "all_init"
    /\ \E c \in Cell : \E n \in Neighbours8(c) :
           /\ Indoor(c) /\ Indoor(n)
           /\ CellIndex(n) < CellIndex(c)
           /\ light[n] # {1}

\* ------------------------------------------------- the boost and its undo
\* A further light source spawned at c0 and activated, the entity set being
\* iterated in the order ord; its id is NewLight.
NewLight == Cardinality(DOMAIN fixtures) + 1
LightTrial(c0, ord) ==
    LET w0 == [World EXCEPT !.fixtures = Put(@, NewLight, [c |-> c0, l1 |-> <<>>, l2 |-> <<>>,
                                                        state |-> "active"])]
    IN IncreaseVisibility_activate(w0, NewLight, ParticleAt(w0, EmptyDict, ord, 1))

\* The voxels within radius 2 of c0, and those within radius 4 and not 2.
Ring1(c0) == {<<c0[1], col[1], col[2]>> : col \in compute_fov(transparent, c0[1], c0[2], c0[3], 2)}
Ring2(c0) ==
    {<<c0[1], col[1], col[2]>> : col \in compute_fov(transparent, c0[1], c0[2], c0[3], 4)} \ Ring1(c0)

\* The levels an absent overlay entry of c may start from: the voxel's
\* level, its level before the fire, the level a particle there has cached.
BaselineAt(c) ==
    {get_light_tile(light, c[1], c[2], c[3])}
        \cup (IF c \in DOMAIN fire_orig_light THEN {fire_orig_light[c]} ELSE {})
        \cup {The(particles[pid].base_value) :
                 pid \in {q \in alive : particles[q].c = c /\ particles[q].base_value # None}}

\* C26: activate adds 2 to the overlay entry of each ring-1 voxel and 1 to
\* that of each ring-2 voxel, an absent entry starting from the voxel's
\* baseline, and touches no other entry; deactivate takes the same amounts
\* off, so that the entry is back at its value before the activation or at
\* that baseline; and with another source alight the two may be put out in
\* either order with the same entries left, those of putting out the other
\* source alone.
C26_BoostReversible ==
    phase = "ready" =>
        \A c0 \in LightCells, ord \in Orders(World) :
            \E on \in {LightTrial(c0, ord)} :
            \E off \in {IncreaseVisibility_deactivate(on, NewLight)} :
                /\ \A c \in Cell :
                       \E delta \in {IF c \in Ring1(c0) THEN 2 ELSE IF c \in Ring2(c0) THEN 1 ELSE 0} :
                           IF delta = 0
                           THEN /\ (c \in DOMAIN on.light_fov) = (c \in DOMAIN light_fov)
                                /\ (c \in DOMAIN off.light_fov) = (c \in DOMAIN light_fov)
                                /\ c \in DOMAIN light_fov =>
                                       on.light_fov[c] = light_fov[c] /\ off.light_fov[c] = light_fov[c]
                           ELSE /\ c \in DOMAIN on.light_fov /\ c \in DOMAIN off.light_fov
                                /\ off.light_fov[c] = on.light_fov[c] - delta
                                /\ IF c \in DOMAIN light_fov
                                   THEN off.light_fov[c] = light_fov[c]
                                   ELSE off.light_fov[c] \in BaselineAt(c)
                /\ \A g \in DOMAIN fixtures :
                       fixtures[g].state = "active" =>
                           \E a \in {IncreaseVisibility_deactivate(
                                         IncreaseVisibility_deactivate(on, g), NewLight)} :
                           \E b \in {IncreaseVisibility_deactivate(
                                         IncreaseVisibility_deactivate(on, NewLight), g)} :
                           \E alone \in {IncreaseVisibility_deactivate(World, g)} :
                               /\ a.light_fov = b.light_fov
                               /\ \A c \in DOMAIN a.light_fov :
                                      a.light_fov[c] = IF c \in DOMAIN light_fov
                                                       THEN alone.light_fov[c]
                                                       ELSE off.light_fov[c]

\* A source is alight, and a second one placed at another voxel would boost
\* an entry the first has boosted and create one that is absent.
C26_Witness ==
    /\ phase = "ready"
    /\ \E g \in DOMAIN fixtures : \E c0 \in LightCells :
           /\ fixtures[g].state = "active"
           /\ c0 # fixtures[g].c
           /\ \E c \in Ring1(c0) \cup Ring2(c0) : c \in DOMAIN light_fov /\ light_fov[c] > 0
           /\ \E c \in Ring1(c0) \cup Ring2(c0) : c \notin DOMAIN light_fov

\* The light sources with the particles and the fires that set the
\* baselines of the overlay, on a map that is not built on.
NextLights ==
    \/ AllInit
    \/ Spawn(StillProtos, ParticleCells, StillDensities)
    \/ TickBegin
    \/ SpreadOne
    \/ ActivateOne
    \/ PlaceLight(LightCells)
    \/ RemoveLight
    \/ SpawnFire(FireCells)
    \/ FireTurn

SpecLights == InitEffect /\ [][NextLights]_vars

\* C27: with no effect applied (every source placed so far put out again,
\* no particle's effect activated), a source that is activated and then
\* deactivated leaves every voxel of its two rings at the light level it had
\* before the activation.
C27_LevelsRestored ==
    (/\ phase = "ready"
     /\ \A g \in DOMAIN fixtures : fixtures[g].state = "done"
     /\ \A pid \in alive : particles[pid].base_value = None) =>
        \A c0 \in LightCells, ord \in Orders(World) :
            \E off \in {IncreaseVisibility_deactivate(LightTrial(c0, ord), NewLight)} :
                \A c \in Ring1(c0) \cup Ring2(c0) : off.light[c] = light[c]

\* C28: LowerVisibility.activate writes the level
\* max(0, cached level - floor(density / per_density_amt)); the voxel is
\* opaque afterwards exactly when that level is 0, and holds the cached
\* transparency whenever the level is above 0.
C28_LoweredLevel ==
    phase = "ready" =>
        \A pid \in alive :
            \E w1 \in {LowerVisibility_activate(World, pid)} :
            \E c \in {particles[pid].c} :
            \E lowered \in {The(w1.particles[pid].base_value)
                               - (particles[pid].density \div particles[pid].per_density_amt)} :
            \E written \in {IF lowered < 0 THEN 0 ELSE lowered} :
                /\ w1.light[c] = {written}
                /\ (w1.transparent[c] = FALSE) <=> (written = 0)
                /\ written > 0 => w1.transparent[c] = The(w1.particles[pid].base_transparency)

\* ------------------------------------------ particles that thin out and die
\* Smoke that stays in its voxel and loses 1 per turn, spawned thin enough
\* to die on its first or second turn, and smoke that loses 3 per turn and
\* hands half of the rest to its neighbours, at the corner of SpreadLayouts.
FadeStillDensities == {1, 2}
FadeProtos == {Proto("SMOKE", 1, 2, 1, 3, 2)}
FadeDensities == {9}
FadeLayouts == EnvLayouts \cup SpreadLayouts

InitFade == InitFrom(FadeLayouts)

NextFade ==
    \/ AllInit
    \/ Spawn(StillProtos, ParticleCells, FadeStillDensities)
    \/ Spawn(FadeProtos, SpreadCells, FadeDensities)
    \/ TickBegin
    \/ SpreadOne
    \/ ActivateOne
    \/ PlaceLight(LightCells)
    \/ RemoveLight

SpecFade == InitFade /\ [][NextFade]_vars

\* C29: a particle whose density is at or below 0 once its decay is taken
\* off does not spread in that call: the call raises nothing, removes the
\* particle, creates no particle and changes no other particle, and leaves
\* the light level and the transparency of its voxel at the values that
\* were there before its effect was first activated, or at their present
\* values when the effect never was activated.
C29_DeadParticleLeaves ==
    phase = "spread" =>
        \A pid \in todo :
            particles[pid].density - particles[pid].density_decay <= 0 =>
                \E r \in {Particle_spread(World, pid)} :
                \E c \in {particles[pid].c} :
                    /\ ~r.raised
                    /\ r.w.alive = alive \ {pid}
                    /\ \A q \in alive \ {pid} : r.w.particles[q] = particles[q]
                    /\ IF pid \in DOMAIN lv_run
                       THEN lv_run[pid].clean =>
                                /\ get_light_tile(r.w.light, c[1], c[2], c[3]) = lv_run[pid].pre_level
                                /\ r.w.transparent[c] = lv_run[pid].pre_transparent
                       ELSE /\ r.w.light[c] = light[c]
                            /\ r.w.transparent[c] = transparent[c]

\* particle_spread is run every turn (Engine.handle_turns), each of its
\* loops to its end.
SpecFadeLive ==
    /\ SpecFade
    /\ WF_vars(TickBegin) /\ WF_vars(SpreadOne) /\ WF_vars(ActivateOne)

DestCell == <<1, 0, 0>>
DestLayouts ==
    { [c \in Cell |-> IF c = <<0, 0, 0>> THEN lo
                      ELSE IF c = DestCell THEN at
                      ELSE IF c = <<2, 0, 0>> THEN hi
                      ELSE IF c = <<1, 0, 1>> THEN side
                      ELSE IF c = <<1, 1, 0>> THEN door
                      ELSE empty] :
        lo \in {empty, wall, door}, at \in {empty, floor, dstairs},
        hi \in {empty, floor, wall}, side \in {empty, wall} }
DestProtos == {Proto("SMOKE", 1, 2, 1, 0, 2)}
DestDensities == {16}

InitDest == InitFrom(DestLayouts)

NextDest ==
    \/ AllInit
    \/ Spawn(DestProtos, {DestCell}, DestDensities)
    \/ TickBegin
    \/ SpreadOne
    \/ ActivateOne

SpecDest == InitDest /\ [][NextDest]_vars

\* The voxel of the last spread event's particle, the voxels below and above
\* it, and the in-bounds in-plane neighbours that are not Wall / Door.
EventCell == particles[spread_ev.pid].c
Below(c) == <<c[1] - 1, c[2], c[3]>>
Above(c) == <<c[1] + 1, c[2], c[3]>>
PlaneOpen(c) ==
    {n \in Cell : /\ n[1] = c[1] /\ n # c
                  /\ n[2] - c[2] \in -1 .. 1 /\ n[3] - c[3] \in -1 .. 1
                  /\ tiles[n] \notin {wall, door}}
DownOpen(c) ==
    Below(c) \in Cell /\ tiles[Below(c)] \notin {wall, door} /\ tiles[c] \in {empty, dstairs}
UpOpen(c) ==
    Above(c) \in Cell /\ tiles[c] \notin {wall, door} /\ tiles[Above(c)] \in {empty, dstairs}

\* C31: the destinations of a spread event are the in-bounds in-plane
\* neighbours that are not Wall / Door, each once, plus the voxel below when
\* it is in bounds and open and the particle's voxel is Empty / DownStairs,
\* otherwise the voxel above when it is in bounds and Empty / DownStairs and
\* the particle's voxel is open; never both, and never a Wall / Door voxel.
C31_Destinations ==
    spread_ev.outcome = "spread" =>
        \E c \in {EventCell} : \E D \in {DOMAIN spread_ev.recv} :
            /\ D = PlaneOpen(c) \cup (IF DownOpen(c) THEN {Below(c)}
                                      ELSE IF UpOpen(c) THEN {Above(c)} ELSE {})
            /\ spread_ev.n = Cardinality(D)
            /\ ~(Below(c) \in D /\ Above(c) \in D)
            /\ \A t \in D : tiles[t] \notin {wall, door}

\* A spread event went below while the voxel above was open to it as well.
C31_Witness ==
    /\ spread_ev.outcome = "spread"
    /\ DownOpen(EventCell) /\ UpOpen(EventCell)
    /\ Below(EventCell) \in DOMAIN spread_ev.recv
    /\ \E t \in PlaneOpen(EventCell) : spread_ev.recv[t] > 0

\* The particle pid is due for a spread event: it survives its decay and its
\* spread counter reaches its rate.
SpreadDue(pid) ==
    /\ particles[pid].density - particles[pid].density_decay > 0
    /\ particles[pid].spread_rate # 0
    /\ particles[pid].spread_value + 1 >= particles[pid].spread_rate

\* The voxels that spread event would reach and the share of each.
DestsOf(pid) ==
    PlaneOpen(particles[pid].c)
    \cup (IF DownOpen(particles[pid].c) THEN {Below(particles[pid].c)}
          ELSE IF UpOpen(particles[pid].c) THEN {Above(particles[pid].c)} ELSE {})
ShareOf(pid) ==
    (((particles[pid].density - particles[pid].density_decay) * particles[pid].sd_num)
        \div particles[pid].sd_den) \div Cardinality(DestsOf(pid))

\* The live particles of pid's type in the destinations of pid.
SameTypeAt(pid) ==
    {q \in alive \ {pid} : /\ particles[q].c \in DestsOf(pid)
                           /\ particles[q].particle_type = particles[pid].particle_type}

\* C32: in a spread event, a particle of the spreading type that a
\* destination voxel hosts receives the share only if its density with the
\* share is strictly below the density the spreading particle is left with,
\* and keeps its density otherwise; the first particle of the type in the
\* voxel's list does receive it then; no particle of that type is created
\* in the voxel, and a particle that received the share is less dense than
\* its source.
C32_MergeCap ==
    phase = "spread" =>
        \A pid \in todo :
            SpreadDue(pid) /\ DestsOf(pid) # {} =>
                \E r \in {Particle_spread(World, pid)} :
                \E per \in {ShareOf(pid)} :
                    /\ ~r.raised
                    /\ \A q \in SameTypeAt(pid) :
                          /\ r.w.particles[q].density # particles[q].density =>
                                /\ r.w.particles[q].density = particles[q].density + per
                                /\ r.w.particles[q].density < r.w.particles[pid].density
                          /\ particles[q].density + per >= r.w.particles[pid].density =>
                                r.w.particles[q].density = particles[q].density
                          /\ /\ per > 0
                             /\ particles[q].density + per < r.w.particles[pid].density
                             /\ FirstOfType(World, p_coord_dict[particles[q].c], 1,
                                            particles[pid].particle_type) = q
                             => r.w.particles[q].density = particles[q].density + per
                          /\ ~\E n \in DOMAIN r.w.particles \ DOMAIN particles :
                                /\ r.w.particles[n].c = particles[q].c
                                /\ r.w.particles[n].particle_type = particles[pid].particle_type

\* A spread event was stopped by the cap at the live particle of a
\* destination.
C32_Witness ==
    /\ spread_ev.outcome = "spread" /\ EventShare > 0
    /\ \E t \in spread_ev.found :
          /\ spread_ev.recv[t] = 0
          /\ \E q \in alive : /\ particles[q].c = t
                              /\ particles[q].particle_type = particles[spread_ev.pid].particle_type
                              /\ particles[q].density + EventShare >= spread_ev.after

\* ---------------------------------- state machine of two factory particles
\* Two particles are spawned before the first turn, of any prototype, never
\* two of one type in one voxel, into the two voxels of a ground-level
\* corner that walls and the floor above close off: each voxel is the only
\* destination of the other.
MaxSpawned == 2
PairLayouts ==
    { [c \in Cell |-> IF c \in W THEN wall ELSE IF c = <<1, 0, 1>> THEN floor ELSE empty] :
        W \in { {<<0, 1, 0>>, <<0, 1, 1>>, <<0, 1, 2>>, <<0, 0, 2>>, <<1, 0, 0>>} } }
PairCells == { <<0, 0, 0>>, <<0, 0, 1>> }
PairProtos == {Proto("SMOKE", 1, 2, 1, 0, 2), Proto("DUST", 3, 4, 1, 0, 2)} \cup StillProtos
PairDensities == {1, 8}

SpawnFirst(protos, cells, densities) ==
    /\ phase = "ready"
    /\ ticks = 0
    /\ next_id <= MaxSpawned
    /\ \E proto \in protos, c \in cells, d \in densities :
           /\ ~\E q \in alive : /\ particles[q].c = c
                                /\ particles[q].particle_type = proto.particle_type
           /\ SetWorld(Particle_spawn(World, proto, c, d))
    /\ last_op' = "spawn"
    /\ result' = "ok"
    /\ UNCHANGED <<todo, phase, ops, ticks, spread_ev>>
    /\ Track({})

InitPair == InitFrom(PairLayouts)

NextPair ==
    \/ AllInit
    \/ SpawnFirst(PairProtos, PairCells, PairDensities)
    \/ TickBegin
    \/ SpreadOne
    \/ ActivateOne

SpecPair == InitPair /\ [][NextPair]_vars

\* A step of particle_spread keeps the order of its loops: the spread loop
\* works off the snapshot, its last step hands every particle then alive to
\* the activation loop, and the activation loop activates one of them at a
\* time and changes no density and no spread counter.
TickOrder ==
    /\ phase = "spread" /\ phase' = "spread" =>
           todo' \subseteq todo /\ todo' # todo
    /\ phase = "spread" /\ phase' # "spread" =>
           /\ Cardinality(todo) = 1
           /\ IF alive' = {} THEN phase' = "ready"
              ELSE phase' = "activate" /\ todo' = alive'
    /\ phase = "activate" =>
           /\ alive' = alive
           /\ \E pid \in todo : /\ todo' = todo \ {pid}
                                /\ particles'[pid].base_value # None
           /\ \A q \in alive : /\ particles'[q].density = particles[q].density
                               /\ particles'[q].spread_value = particles[q].spread_value
           /\ phase' = IF todo' = {} THEN "ready" ELSE "activate"

\* C33: within one particle_spread the activations start once every
\* particle of the tick's snapshot has performed its decay / spread step,
\* and they reach exactly the particles alive at that point: a particle
\* spawned during the tick takes no decay / spread step in that tick and is
\* activated in it, a particle removed during the tick is not activated.
C33_ActivateAfterSpread == [][TickOrder]_vars

\* C34: no voxel hosts two live particles of one particle_type, the factory
\* having spawned no two of one type into one voxel.
C34_OnePerType ==
    \A p, q \in alive :
        p # q /\ particles[p].c = particles[q].c =>
            particles[p].particle_type # particles[q].particle_type

\* After two ticks a voxel hosts particles of two types, one of them a
\* clone, and the last spread event found a particle of its type there.
C34_Witness ==
    /\ ticks >= 2 /\ phase = "ready"
    /\ spread_ev.outcome = "spread" /\ spread_ev.found # {}
    /\ \E p, q \in alive : /\ p # q /\ q > MaxSpawned
                           /\ particles[p].c = particles[q].c
                           /\ particles[p].c \in spread_ev.found
                           /\ particles[p].particle_type # particles[q].particle_type

\* C35: from a spread event that credited a positive share to a destination
\* voxel up to the end of its tick, the voxel hosts a live particle of the
\* spreading type; the share did not go to a particle removed earlier in the
\* tick.
C35_ShareReachesLive ==
    spread_ev.outcome = "spread" =>
        \A t \in DOMAIN spread_ev.recv :
            spread_ev.recv[t] > 0 =>
                \E q \in alive :
                    /\ particles[q].c = t
                    /\ particles[q].particle_type = particles[spread_ev.pid].particle_type

\* -------------------------------------- state machine of a sealed voxel
\* The corner voxel (0,0,0) under a Wall, a Floor or a Door, with Walls
\* around it in its plane, one of them open or not.
SealLayouts ==
    { [c \in Cell |-> IF c \in {<<0, 1, 0>>, <<0, 1, 1>>} THEN wall
                      ELSE IF c = <<0, 0, 1>> THEN side
                      ELSE IF c = <<1, 0, 0>> THEN top
                      ELSE IF c = <<1, 0, 1>> THEN floor
                      ELSE empty] :
        side \in {wall, empty}, top \in {wall, floor, door} }

InitSeal == InitFrom(SealLayouts)

SpecSeal == InitSeal /\ [][NextSpread]_vars

\* C36: a spread event of a particle without any open destination completes
\* without error, creates no particle and leaves the particle's density at
\* its value after the per-turn decay.
C36_NoDestination ==
    phase = "spread" =>
        \A pid \in todo :
            SpreadDue(pid) /\ DestsOf(pid) = {} =>
                \E r \in {Particle_spread(World, pid)} :
                    /\ ~r.raised
                    /\ DOMAIN r.w.particles = DOMAIN particles
                    /\ r.w.particles[pid].density =
                           particles[pid].density - particles[pid].density_decay

\* The world with the turn counter of fire fid at k.
FireAt(fid, k) == [World EXCEPT !.fires[fid].turn_count = k]

\* C37: a Fire leaves its voxel alone on each of its first BURNING_POINT
\* turns, so that the voxel is not on fire unless another fire lit it; its
\* turn with the counter at or above the threshold sets the voxel on fire
\* and, when the voxel has no pre-fire snapshot, stores the voxel's current
\* light level as the snapshot; when it has one the turn raises and the
\* snapshot stays as it is.
C37_Ignition ==
    \A fid \in DOMAIN fires :
        \E c \in {fires[fid].c} :
            /\ fires[fid].turn_count <= BURNING_POINT
               /\ (\A g \in DOMAIN fires : fires[g].c = c => fires[g].turn_count <= BURNING_POINT)
                   => ~on_fire[c]
            /\ \A k \in 0 .. BURNING_POINT - 1 :
                   \E r \in {Fire_handle_turn(FireAt(fid, k), fid)} :
                       /\ ~r.raised
                       /\ r.w.on_fire = on_fire
                       /\ r.w.fire_orig_light = fire_orig_light
                       /\ r.w.fires[fid].turn_count = k + 1
            /\ fires[fid].turn_count >= BURNING_POINT =>
                   \E r \in {Fire_handle_turn(World, fid)} :
                       /\ r.w.on_fire = [on_fire EXCEPT ![c] = TRUE]
                       /\ IF c \in DOMAIN fire_orig_light
                          THEN r.raised /\ r.w.fire_orig_light = fire_orig_light
                          ELSE /\ ~r.raised
                               /\ r.w.fire_orig_light =
                                      Put(fire_orig_light, c, get_light_tile(light, c[1], c[2], c[3]))

\* A Fire's turn at the threshold has set its voxel on fire and stored the
\* level a particle had lowered as the snapshot.
C37_Witness ==
    /\ last_op = "fire_turn" /\ result = "ok"
    /\ \E fid \in DOMAIN fires :
          /\ fires[fid].turn_count = BURNING_POINT + 1
          /\ on_fire[fires[fid].c]
          /\ fire_orig_light[fires[fid].c] = get_light_tile(light, fires[fid].c[1],
                                                            fires[fid].c[2], fires[fid].c[3])
          /\ \E pid \in alive : /\ particles[pid].c = fires[fid].c
                                /\ particles[pid].base_value # None

\* C38: a Fire that has set its voxel on fire and stored the snapshot
\* itself takes each later turn without raising, its turn counter advancing
\* by one.
C38_BurningFireTurns ==
    \A fid \in DOMAIN fires :
        fires[fid].turn_count > BURNING_POINT =>
            \E r \in {Fire_handle_turn(World, fid)} :
                /\ ~r.raised
                /\ r.w.fires[fid].turn_count = fires[fid].turn_count + 1

\* The steps that activate or deactivate the effect of a particle or of a
\* fixture: the loops of particle_spread and the light source's switch.
EffectStep == last_op' \in {"spread", "activate", "light_on", "light_off"}

\* C39: update_tiles leaves every voxel that is on fire at light level 4,
\* and no activation or deactivation of a particle's or a fixture's effect
\* changes the light level of a voxel that is on fire.
C39_FireLightKept ==
    [][/\ last_op' = "update_tiles" =>
              \A c \in Cell : on_fire'[c] => light'[c] = {4}
       /\ EffectStep =>
              \A c \in Cell : on_fire[c] => light'[c] = light[c]]_vars

\* ------------------------------------------- state machine of the tasks
\* BuildAction.perform: the topology check, then the task entity is spawned
\* at the target voxel and handed to the actor's BuildRemoveAI.
MaxTasks == 2
TaskCells == { <<1, 1, 1>>, <<1, 0, 1>> }

NewTask(c, build_task, build_type) ==
    [c |-> c, build_task |-> build_task, build_type |-> build_type, state |-> "pending"]

TaskSpawn(op, ok, task) ==
    /\ SetWorld(IF ok THEN [World EXCEPT !.work_items =
                                Put(@, Cardinality(DOMAIN work_items) + 1, task)]
                ELSE World)
    /\ last_op' = op
    /\ result' = IF ok THEN "ok" ELSE "Impossible"
    /\ UNCHANGED <<todo, phase, ops, ticks, spread_ev>>
    /\ Track({})

BuildAction_perform(cells) ==
    /\ phase = "ready"
    /\ Cardinality(DOMAIN work_items) < MaxTasks
    /\ \E c \in cells, t \in BuildTypes :
          TaskSpawn("build_action", build_tile_check(World, c, t), NewTask(c, TRUE, t))

\* RemoveDigAction.perform, for a removal on the actor's level.
RemoveDigAction_perform(cells) ==
    /\ phase = "ready"
    /\ Cardinality(DOMAIN work_items) < MaxTasks
    /\ \E c \in cells :
          TaskSpawn("remove_action", remove_tile_check(World, c), NewTask(c, FALSE, empty))

\* BuildRemoveTile.done: [w, raised].
BuildRemoveTile_done(w, id) ==
    IF w.work_items[id].build_task
    THEN build_after_check(w, w.work_items[id].c, w.work_items[id].build_type)
    ELSE [w |-> remove_tile(w, w.work_items[id].c), raised |-> FALSE]

\* The actor's BuildRemoveAI reaches the end of the task's turns and calls
\* work_item.done(); the tasks of different actors end in any order.
BuildRemoveAI_perform ==
    /\ phase = "ready"
    /\ \E id \in DOMAIN work_items :
          /\ work_items[id].state = "pending"
          /\ \E r \in {BuildRemoveTile_done(World, id)} :
                /\ SetWorld([r.w EXCEPT !.work_items[id].state = "done"])
                /\ result' = IF r.raised THEN "Impossible" ELSE "ok"
    /\ last_op' = "task_done"
    /\ UNCHANGED <<todo, phase, ops, ticks, spread_ev>>
    /\ Track({})

InitTask == InitFrom(EnvLayouts)

NextTask ==
    \/ AllInit
    \/ BuildAction_perform(TaskCells)
    \/ RemoveDigAction_perform(TaskCells)
    \/ BuildRemoveAI_perform

SpecTask == InitTask /\ [][NextTask]_vars

\* C40: when a build task completes and writes its tile, a floor-type tile
\* goes into a voxel that is Empty at that moment and a Wall / Door into a
\* voxel that is Empty or Floor at that moment, whatever tasks completed
\* since the task was created.
C40_TopologyAtCompletion ==
    [][\A id \in DOMAIN work_items :
           /\ work_items[id].state = "pending" /\ work_items'[id].state = "done"
           /\ work_items[id].build_task /\ result' = "ok"
           => IF work_items[id].build_type \in {floor, ustairs, dstairs}
              THEN tiles[work_items[id].c] = empty
              ELSE tiles[work_items[id].c] \in {empty, floor}]_vars

====
